---- MODULE Spec2Model ----
(***************************************************************************)
(* State-machine model of the eva_bot orchestration core.                  *)
(*                                                                         *)
(*   SpecGate   SecurityGate.check / approvePairing over the persisted     *)
(*              allowlist, pairing-code and security-event tables          *)
(*              (gate.ts, db.ts).  approvePairing is two SQL statements    *)
(*              (SELECT, then UPDATE); several bot processes may share one *)
(*              store, so the two statements of different calls interleave.*)
(*   SpecAgent  AgentLoop.process: one conversational turn with its        *)
(*              tool-calling loop (agent loop source, part_000).           *)
(*   SpecRate   RateLimiter.check with its background sweep                *)
(*              (ratelimit.ts).                                            *)
(*   SpecSwarm  SwarmOrchestrator.run: roster, agents running in parallel, *)
(*              collection of their results, synthesis (orchestrator.ts).  *)
(*   SpecRunner ContainerRunner.runInSandbox / runWithNetwork (gate.ts).   *)
(*   SpecLlm    LLMClient.chat: attempts, retries and the fallback call   *)
(*              (llm.ts).                                                  *)
(*   SpecSession  the session part of AgentLoop.process over the sessions  *)
(*              table (getOrCreateSession, db.ts).                         *)
(*   SpecInbound  the message handler of a channel adapter: trigger word,  *)
(*              gate, rate limiter, agent loop, reply (channel adapters,   *)
(*              entry point); the agent loop is taken as one step that     *)
(*              touches the session and saves its messages.                *)
(*   SpecRateAdmin  the rate limiter together with the admin tool that     *)
(*              resets one identity (ratelimit.ts, admin.ts).              *)
(*   SpecContext  AgentLoop.process between saving the inbound message and *)
(*              the first model call: history, chat messages, token budget *)
(*              (agent loop source, db.ts).                                *)
(*                                                                         *)
(* Each specification leaves the other components' variables untouched.    *)
(***************************************************************************)
EXTENDS Integers, Sequences, FiniteSets, TLC

VARIABLES
    \* ---- configuration (Config, fixed after construction) ----
    allowedIds,         \* channel -> static allowlist from .env
    dmPolicy,           \* config.security.dmPolicy
    pairingCodeLength,  \* config.security.pairingCodeLength
    \* ---- persisted tables (db.ts) ----
    allowlist,          \* allowlist table: set of <<user_id, channel>>
    pairingCodes,       \* pairing_codes table: code -> row
    securityEvents,     \* security_events table, in insertion order
    \* ---- environment ----
    now,                \* Date.now(), ms
    \* ---- calls ----
    nChecks,            \* number of check calls made so far
    lastCheck,          \* the most recent check call and what it returned
    apc,                \* approver -> "idle" | "lookedUp" | "done"
    acode,              \* approver -> the code passed to approvePairing
    aentry,             \* approver -> the row getPairingCode returned
    aresult,            \* approver -> the value approvePairing returned
    \* ---- AgentLoop.process ----
    pc,                 \* position of the turn inside process
    turns,              \* number of turns started
    incoming,           \* the inbound text of the turn
    dbMessages,         \* messages table of the session, in insertion order
    currentMessages,    \* roles of the running message list of the loop
    iterations,         \* loop counter
    modelCalls,         \* number of llm.chat calls of this turn
    response,           \* the model response being handled
    tcIndex,            \* index of the next tool call of the round
    toolResultParts,    \* result parts of the round, in push order
    finalResponse,      \* finalResponse local
    returned,           \* what process returned (None while running)
    \* ---- RateLimiter (ratelimit.ts) ----
    maxRequests,        \* this.maxRequests
    windowMs,           \* this.windowMs
    limits,             \* this.limits: userId -> [count, resetAt]
    rnow,               \* Date.now() as the limiter sees it, ms
    nRateCalls,         \* number of RateLimiter.check calls made so far
    lastRate,           \* the most recent RateLimiter.check call and its result
    win,                \* userId -> the window its last opening call opened
    allowedAt,          \* userId -> times of its allowed calls, in order
    twin,               \* a limiter given the same calls and never swept
    \* ---- SwarmOrchestrator.run (orchestrator.ts) ----
    spc,                \* position of the run
    customAgents,       \* the customAgents argument
    decomposition,      \* what the decomposition call produced
    agents,             \* the roster: role of each agent, in order
    settled,            \* results of Promise.allSettled, Pending while running
    agentResults,       \* the agentResults record: keys in insertion order, values
    synthInput,         \* Object.entries(results) as synthesize sees them
    synthCalls,         \* number of synthesis model calls made
    swarmReturned,      \* what run returned (None while running)
    \* ---- ContainerRunner (gate.ts) ----
    runtime,            \* config.security.container.runtime
    nRuns,              \* number of runner calls made so far
    lastRun,            \* the most recent runner call and how it ended
    \* ---- LLMClient.chat (llm.ts) ----
    models,             \* config.models: the model names, in order
    defaultModel,       \* this.defaultModel
    lpc,                \* position of the chat call
    optModel,           \* options.model of the outer call
    depth,              \* 0 in the outer call, 1 inside the fallback call
    cfgModel,           \* cfg.model of the running call
    maxRetries,         \* maxRetries of the running call
    attempt,            \* attempt of the running call
    calls,              \* provider calls of the chat call, in order
    chatResult,         \* what the outer call returned or threw
    nChats,             \* number of chat calls made so far
    \* ---- sessions (getOrCreateSession, db.ts) ----
    sessions,           \* sessions table: id -> row
    sclock,             \* Date.now() as the session code sees it
    nMessages,          \* number of messages process has taken
    lastSession,        \* the session process used for its last message
    \* ---- inbound message handler (channel adapters, handleMessage) ----
    ipc,                \* position of the handler
    imsg,               \* the message being handled
    consulted,          \* components the handler has consulted, in order
    reply,              \* what was sent back to the sender
    nInbound,           \* number of messages delivered so far
    \* ---- AgentLoop.process: the context of the first model call ----
    ctxpc,              \* position of process between save and first call
    msgTable,           \* rows of the session in the messages table
    cIncoming,          \* incoming: text and timestamp
    systemTokens,       \* estimateTokens(systemPrompt)
    built,              \* chatMessages as built, before the budget loop
    chatMessages,       \* chatMessages
    historyTokens       \* historyTokens

gateVars == <<allowedIds, dmPolicy, pairingCodeLength, allowlist, pairingCodes,
              securityEvents, now, nChecks, lastCheck, apc, acode, aentry, aresult>>

agentVars == <<pc, turns, incoming, dbMessages, currentMessages, iterations,
               modelCalls, response, tcIndex, toolResultParts, finalResponse,
               returned>>

rateVars == <<maxRequests, windowMs, limits, rnow, nRateCalls, lastRate, win,
              allowedAt, twin>>

swarmVars == <<spc, customAgents, decomposition, agents, settled, agentResults,
               synthInput, synthCalls, swarmReturned>>

runnerVars == <<runtime, nRuns, lastRun>>

llmVars == <<models, defaultModel, lpc, optModel, depth, cfgModel, maxRetries,
             attempt, calls, chatResult, nChats>>

sessionVars == <<sessions, sclock, nMessages, lastSession>>

inboundVars == <<ipc, imsg, consulted, reply, nInbound>>

contextVars == <<ctxpc, msgTable, cIncoming, systemTokens, built, chatMessages,
                 historyTokens>>

\* What each component leaves alone.
restVars == <<llmVars, sessionVars, inboundVars, contextVars>>
nonGateVars == <<agentVars, rateVars, swarmVars, runnerVars, restVars>>
nonAgentVars == <<gateVars, rateVars, swarmVars, runnerVars, restVars>>
nonRateVars == <<gateVars, agentVars, swarmVars, runnerVars, restVars>>
nonSwarmVars == <<gateVars, agentVars, rateVars, runnerVars, restVars>>
nonRunnerVars == <<gateVars, agentVars, rateVars, swarmVars, restVars>>
coreVars == <<gateVars, agentVars, rateVars, swarmVars, runnerVars>>
nonLlmVars == <<coreVars, sessionVars, inboundVars, contextVars>>
nonSessionVars == <<coreVars, llmVars, inboundVars, contextVars>>
nonContextVars == <<coreVars, llmVars, sessionVars, inboundVars>>

vars == <<gateVars, agentVars, rateVars, swarmVars, runnerVars, llmVars,
          sessionVars, inboundVars, contextVars>>

None == "none"

\* undefined, where the value would otherwise be a record or a code string.
NoEntry == [found |-> FALSE]
NoResult == [returned |-> FALSE]
NoCheck == [outcome |-> "none"]
NoCode == <<>>

\* No model response yet.
NoResponse == [content |-> "", toolCalls |-> <<>>]

\* No RateLimiter.check call yet; no window opened yet.
NoRate == [allowed |-> FALSE, userId |-> "none", at |-> -1, retryAfter |-> 0]
NoWindow == [resetAt |-> 0, allowed |-> 0, calls |-> 0, deniedBefore |-> 0]

\* The never-swept limiter before any call.
NoTwin == [limits |-> <<>>, allowed |-> FALSE, retryAfter |-> 0]

\* ------------------------------------------------------------------------
\* Bounds of the model
\* ------------------------------------------------------------------------
MaxChecks == 2          \* check calls per behaviour
NumApprovers == 2       \* approvePairing calls per behaviour (one per approver)
MaxTicks == 2           \* clock advances per behaviour
MaxSteps == 7           \* gate steps (checks, approval steps, clock advances)
MaxToolCalls == 2       \* tool calls one model response may request
MaxTurns == 1           \* turns per behaviour
MaxRateCalls == 4       \* RateLimiter.check calls per behaviour
MaxRateTicks == 3       \* clock advances of the limiter per behaviour
MaxAgents == 3          \* agents in one swarm roster
MaxRuns == 2            \* ContainerRunner calls per behaviour
MaxChats == 2           \* LLMClient.chat calls per behaviour
MaxMessages == 3        \* messages the session code takes per behaviour
MaxInbound == 2         \* messages delivered to the handler per behaviour
MaxHistory == 3         \* rows of the session before the turn

Users == {"u1", "u2"}
Channels == {"telegram", "whatsapp"}
Approvers == 1..NumApprovers

\* No decomposition call made; an agent still running; an empty record.
NoDecomposition == [kind |-> "none"]
Pending == [status |-> "pending"]
EmptyRecord == [order |-> <<>>, val |-> <<>>]

\* The orchestrator before any run.
SwarmIdle ==
    /\ spc = "idle"
    /\ customAgents = <<>>
    /\ decomposition = NoDecomposition
    /\ agents = <<>>
    /\ settled = <<>>
    /\ agentResults = EmptyRecord
    /\ synthInput = <<>>
    /\ synthCalls = 0
    /\ swarmReturned = None

\* No runner call yet.
NoRun == [outcome |-> "none"]

\* The runner before any call.
RunnerIdle ==
    /\ runtime = "docker"
    /\ nRuns = 0
    /\ lastRun = NoRun

\* options.model left out.
Undefined == "undefined"

\* No chat call made or finished yet.
NoChat == [outcome |-> "none", model |-> "none", error |-> "none"]

\* The client before any chat call.
LlmIdle ==
    /\ models = <<"m1">>
    /\ defaultModel = "m1"
    /\ lpc = "idle"
    /\ optModel = Undefined
    /\ depth = 0
    /\ cfgModel = "none"
    /\ maxRetries = 0
    /\ attempt = 0
    /\ calls = <<>>
    /\ chatResult = NoChat
    /\ nChats = 0

\* No session used yet.
NoSession == [id |-> 0, created |-> FALSE]

\* The sessions table before any message.
SessionIdle ==
    /\ sessions = <<>>
    /\ sclock = 0
    /\ nMessages = 0
    /\ lastSession = NoSession

\* No message in the handler; nothing sent back.
NoMessage == [userId |-> "none", channel |-> "none", isGroup |-> FALSE,
              hasTrigger |-> FALSE, cleanEmpty |-> FALSE]
NoReply == [kind |-> "none", code |-> <<>>, waitSeconds |-> 0]

\* The handler before any message.
InboundIdle ==
    /\ ipc = "idle"
    /\ imsg = NoMessage
    /\ consulted = <<>>
    /\ reply = NoReply
    /\ nInbound = 0

\* No inbound message taken yet; no context built.
NoIncoming == [text |-> "none", timestamp |-> 0]

ContextIdle ==
    /\ ctxpc = "idle"
    /\ msgTable = <<>>
    /\ cIncoming = NoIncoming
    /\ systemTokens = 0
    /\ built = <<>>
    /\ chatMessages = <<>>
    /\ historyTokens = 0

\* The components of the later sections at rest.
RestIdle == LlmIdle /\ SessionIdle /\ InboundIdle /\ ContextIdle

\* The limiter as the entry point constructs it, before any call.
RateIdle ==
    /\ maxRequests = 20
    /\ windowMs = 60000
    /\ limits = <<>>
    /\ rnow = 0
    /\ nRateCalls = 0
    /\ lastRate = NoRate
    /\ win = [u \in Users |-> NoWindow]
    /\ allowedAt = [u \in Users |-> <<>>]
    /\ twin = NoTwin

\* ------------------------------------------------------------------------
\* SecurityGate (gate.ts) and its tables (db.ts)
\* ------------------------------------------------------------------------

\* expiresAt: Date.now() + 10 * 60 * 1000
PairingTtlMs == 10 * 60 * 1000

\* The clock moves in steps of half the pairing lifetime, so that "now" meets
\* an expiry exactly.
TickMs == PairingTtlMs \div 2

Min(a, b) == IF a < b THEN a ELSE b
CeilDiv(a, b) == (a + b - 1) \div b

\* Values randomBytes may deliver for one byte (0x0a, 0xb1).
ByteValues == {10, 177}

\* crypto.randomBytes(n): any n bytes.
randomBytes(n) == [1..n -> ByteValues]

HexDigit(n) ==
    CASE n = 0 -> "0" [] n = 1 -> "1" [] n = 2 -> "2" [] n = 3 -> "3"
      [] n = 4 -> "4" [] n = 5 -> "5" [] n = 6 -> "6" [] n = 7 -> "7"
      [] n = 8 -> "8" [] n = 9 -> "9" [] n = 10 -> "a" [] n = 11 -> "b"
      [] n = 12 -> "c" [] n = 13 -> "d" [] n = 14 -> "e" [] n = 15 -> "f"

\* Buffer.toString("hex"): two lower-case hex digits per byte.
RECURSIVE toHex(_)
toHex(bytes) ==
    IF Len(bytes) = 0 THEN <<>>
    ELSE <<HexDigit(Head(bytes) \div 16), HexDigit(Head(bytes) % 16)>>
         \o toHex(Tail(bytes))

\* String.slice(0, n) for n >= 0.
slice0(s, n) == SubSeq(s, 1, Min(n, Len(s)))

UpperChar(c) ==
    CASE c = "a" -> "A" [] c = "b" -> "B" [] c = "c" -> "C"
      [] c = "d" -> "D" [] c = "e" -> "E" [] c = "f" -> "F"
      [] OTHER -> c

toUpperCase(s) == [i \in 1..Len(s) |-> UpperChar(s[i])]

\* The code string issuePairingCode derives from the random bytes.
MakeCode(bytes, len) == toUpperCase(slice0(toHex(bytes), len))

\* Every code issuePairingCode can produce under the configured length.
PossibleCodes == {MakeCode(b, pairingCodeLength) :
                    b \in randomBytes(CeilDiv(pairingCodeLength, 2))}

getHardcodedAllowlist(channel) == allowedIds[channel]

\* A check that forgets the length test of the static list.
NotInHardcodedNoLength(hardcoded, userId) == userId \notin hardcoded

\* gate.ts:28: the static list sends the caller on to the dynamic check.
NotInHardcoded(hardcoded, userId) == hardcoded # {} /\ userId \notin hardcoded

\* A SELECT that forgets the channel column.
isAllowlistedAnyChannel(userId, channel) ==
    \E ch \in Channels : <<userId, ch>> \in allowlist

\* SELECT 1 FROM allowlist WHERE user_id = ? AND channel = ?
isAllowlisted(userId, channel) == <<userId, channel>> \in allowlist

\* An INSERT that replaces the rows of the table.
addToAllowlistReplacing(userId, channel) == {<<userId, channel>>}

\* An INSERT that forgets the channel column.
addToAllowlistEveryChannel(userId, channel) ==
    allowlist \cup {<<userId, ch>> : ch \in Channels}

\* INSERT OR IGNORE INTO allowlist (user_id, channel, ...)
addToAllowlist(userId, channel) == allowlist \cup {<<userId, channel>>}

\* WHERE code = ? AND used = 0 AND expires_at > ?   (SELECT of getPairingCode)
SelectLive(code, t) ==
    /\ code \in DOMAIN pairingCodes
    /\ ~pairingCodes[code].used
    /\ pairingCodes[code].expiresAt > t

\* An UPDATE that forgets "used = 0".
UpdateLiveIgnoringUsed(code, t) ==
    /\ code \in DOMAIN pairingCodes
    /\ pairingCodes[code].expiresAt > t

\* An UPDATE that forgets "expires_at > ?".
UpdateLiveIgnoringExpiry(code, t) ==
    /\ code \in DOMAIN pairingCodes
    /\ ~pairingCodes[code].used

\* An UPDATE with nothing but "code = ?" in its WHERE.
UpdateLiveAnyRow(code, t) == code \in DOMAIN pairingCodes

\* WHERE code = ? AND used = 0 AND expires_at > ?   (UPDATE of consumePairingCode)
UpdateLive(code, t) ==
    /\ code \in DOMAIN pairingCodes
    /\ ~pairingCodes[code].used
    /\ pairingCodes[code].expiresAt > t

\* getPairingCode: the row as a PairingCode, or undefined.
getPairingCode(code, t) ==
    IF SelectLive(code, t)
    THEN [code |-> code, userId |-> pairingCodes[code].userId,
          channel |-> pairingCodes[code].channel,
          expiresAt |-> pairingCodes[code].expiresAt, used |-> FALSE]
    ELSE NoEntry

\* consumePairingCode: the table after the UPDATE.
consumePairingCode(code, t) ==
    IF UpdateLive(code, t)
    THEN [pairingCodes EXCEPT ![code].used = TRUE]
    ELSE pairingCodes

\* savePairingCode: plain INSERT; code is the table's PRIMARY KEY.
savePairingCode(row) ==
    [c \in DOMAIN pairingCodes \cup {row.code} |->
        IF c = row.code
        THEN [userId |-> row.userId, channel |-> row.channel,
              expiresAt |-> row.expiresAt, used |-> FALSE]
        ELSE pairingCodes[c]]

\* A logEvent that records every event as "blocked".
EventRowAlwaysBlocked(type, userId, channel, details) ==
    [type |-> "blocked", userId |-> userId, channel |-> channel,
     details |-> details]

\* logEvent + logSecurityEvent: the row appended (id and timestamp are never
\* read back by the gate and are left out).
EventRow(type, userId, channel, details) ==
    [type |-> type, userId |-> userId, channel |-> channel, details |-> details]

StaticConfigs ==
    { [telegram |-> {}, whatsapp |-> {"u1"}],
      [telegram |-> {"u1"}, whatsapp |-> {"u1"}] }

CodeLengths == {1, 2}

GateInit ==
    /\ allowedIds \in StaticConfigs
    /\ dmPolicy \in {"strict", "pairing"}
    /\ pairingCodeLength \in CodeLengths
    /\ allowlist = {}
    /\ pairingCodes = <<>>
    /\ securityEvents = <<>>
    /\ now = 0
    /\ nChecks = 0
    /\ lastCheck = NoCheck
    /\ apc = [p \in Approvers |-> "idle"]
    /\ acode = [p \in Approvers |-> NoCode]
    /\ aentry = [p \in Approvers |-> NoEntry]
    /\ aresult = [p \in Approvers |-> NoResult]

\* Steps the gate specification has taken: checks, clock advances, lookups
\* and consume steps.
StepsTaken ==
    nChecks + (now \div TickMs)
    + Cardinality({p \in Approvers : apc[p] # "idle"})
    + Cardinality({p \in Approvers : apc[p] = "done" /\ aresult[p].lookedUp})

\* The value check hands back, with what the call read on its way.
CheckRecord(userId, channel, outcome, reason, code, readDynamic, readPolicy) ==
    [userId |-> userId, channel |-> channel, outcome |-> outcome,
     reason |-> reason, pairingCode |-> code,
     readDynamic |-> readDynamic, readPolicy |-> readPolicy,
     inStatic |-> userId \in allowedIds[channel],
     inDynamic |-> <<userId, channel>> \in allowlist]

\* SecurityGate.check(userId, channel); bytes is what randomBytes delivers if
\* a pairing code is issued.
GateCheck(userId, channel, bytes) ==
    /\ nChecks < MaxChecks
    /\ StepsTaken < MaxSteps
    /\ nChecks' = nChecks + 1
    /\ LET hardcoded == getHardcodedAllowlist(channel)
           code == MakeCode(bytes, pairingCodeLength)
       IN
       IF NotInHardcoded(hardcoded, userId) /\ ~isAllowlisted(userId, channel)
       THEN
          IF dmPolicy = "pairing"
          THEN
             IF code \in DOMAIN pairingCodes
             THEN \* INSERT hits the primary key: savePairingCode throws
                  /\ lastCheck' = CheckRecord(userId, channel, "threw", None,
                                              NoCode, TRUE, TRUE)
                  /\ UNCHANGED <<pairingCodes, securityEvents>>
             ELSE /\ pairingCodes' = savePairingCode(
                        [code |-> code, userId |-> userId, channel |-> channel,
                         expiresAt |-> now + PairingTtlMs])
                  /\ securityEvents' = Append(securityEvents,
                        EventRow("blocked", userId, channel,
                                 <<"Pairing code issued", code>>))
                  /\ lastCheck' = CheckRecord(userId, channel, "denied",
                                     "pairing_required", code, TRUE, TRUE)
          ELSE /\ securityEvents' = Append(securityEvents,
                     EventRow("blocked", userId, channel, <<"Not in allowlist">>))
               /\ lastCheck' = CheckRecord(userId, channel, "denied",
                                           "not_allowed", NoCode, TRUE, TRUE)
               /\ UNCHANGED pairingCodes
       ELSE
          /\ securityEvents' = Append(securityEvents,
                EventRow("allowlist_hit", userId, channel, <<"Access granted">>))
          /\ lastCheck' = CheckRecord(userId, channel, "allowed", None, NoCode,
                                      NotInHardcoded(hardcoded, userId), FALSE)
          /\ UNCHANGED pairingCodes
    /\ UNCHANGED <<allowedIds, dmPolicy, pairingCodeLength, allowlist, now,
                   apc, acode, aentry, aresult>>

\* A check call made on its own.
Check(userId, channel, bytes) ==
    /\ GateCheck(userId, channel, bytes)
    /\ UNCHANGED nonGateVars

\* approvePairing(code), first statement: entry = getPairingCode(code);
\* a missing entry returns { success: false } at once.
ApproveLookup(p, code) ==
    /\ apc[p] = "idle"
    /\ StepsTaken < MaxSteps
    /\ acode' = [acode EXCEPT ![p] = code]
    /\ LET entry == getPairingCode(code, now) IN
       /\ aentry' = [aentry EXCEPT ![p] = entry]
       /\ IF entry = NoEntry
          THEN /\ apc' = [apc EXCEPT ![p] = "done"]
               /\ aresult' = [aresult EXCEPT ![p] =
                     [success |-> FALSE, userId |-> None, channel |-> None,
                      lookedUp |-> FALSE]]
          ELSE /\ apc' = [apc EXCEPT ![p] = "lookedUp"]
               /\ UNCHANGED aresult
    /\ UNCHANGED <<allowedIds, dmPolicy, pairingCodeLength, allowlist,
                   pairingCodes, securityEvents, now, nChecks, lastCheck>>
    /\ UNCHANGED nonGateVars

\* approvePairing(code), from consumePairingCode to the return.
ApproveConsume(p) ==
    /\ apc[p] = "lookedUp"
    /\ StepsTaken < MaxSteps
    /\ apc' = [apc EXCEPT ![p] = "done"]
    /\ IF UpdateLive(acode[p], now)
       THEN /\ pairingCodes' = consumePairingCode(acode[p], now)
            /\ allowlist' = addToAllowlist(aentry[p].userId, aentry[p].channel)
            /\ securityEvents' = Append(securityEvents,
                  EventRow("pairing_approved", aentry[p].userId,
                           aentry[p].channel, <<"Code", acode[p]>>))
            /\ aresult' = [aresult EXCEPT ![p] =
                  [success |-> TRUE, userId |-> aentry[p].userId,
                   channel |-> aentry[p].channel, lookedUp |-> TRUE]]
       ELSE /\ aresult' = [aresult EXCEPT ![p] =
                  [success |-> FALSE, userId |-> None, channel |-> None,
                   lookedUp |-> TRUE]]
            /\ UNCHANGED <<pairingCodes, allowlist, securityEvents>>
    /\ UNCHANGED <<allowedIds, dmPolicy, pairingCodeLength, now, nChecks,
                   lastCheck, acode, aentry>>
    /\ UNCHANGED nonGateVars

\* Date.now() moves on.
AdvanceTime ==
    /\ now + TickMs <= MaxTicks * TickMs
    /\ StepsTaken < MaxSteps
    /\ now' = now + TickMs
    /\ UNCHANGED <<allowedIds, dmPolicy, pairingCodeLength, allowlist,
                   pairingCodes, securityEvents, nChecks, lastCheck,
                   apc, acode, aentry, aresult>>
    /\ UNCHANGED nonGateVars

AgentIdle ==
    /\ pc = "idle"
    /\ turns = 0
    /\ incoming = None
    /\ dbMessages = <<>>
    /\ currentMessages = <<>>
    /\ iterations = 0
    /\ modelCalls = 0
    /\ response = NoResponse
    /\ tcIndex = 0
    /\ toolResultParts = <<>>
    /\ finalResponse = ""
    /\ returned = None

InitGate ==
    GateInit /\ AgentIdle /\ RateIdle /\ SwarmIdle /\ RunnerIdle
    /\ RestIdle

NextGate ==
    \/ \E u \in Users, ch \in Channels,
          b \in randomBytes(CeilDiv(pairingCodeLength, 2)) : Check(u, ch, b)
    \/ \E p \in Approvers, c \in PossibleCodes : ApproveLookup(p, c)
    \/ \E p \in Approvers : ApproveConsume(p)
    \/ AdvanceTime

SpecGate == InitGate /\ [][NextGate]_vars

\* ------------------------------------------------------------------------
\* AgentLoop.process (agent loop, part_000) with the tools it dispatches
\* ------------------------------------------------------------------------

MAX_ITERATIONS == 10

\* const TOOL_TIMEOUT = 120000 (ms)
TOOL_TIMEOUT == 120000

\* makeBashTool: (args["timeout"] ?? 30) * 1000
BashDefaultTimeoutSec == 30

Fallback == "(I ran into an issue processing your request. Please try again.)"
Placeholder == "(using tools...)"
TimeoutMessage == "Tool execution timeout"

Texts == {"hello"}

\* this.tools: the registered names.  "bash" is makeBashTool, which runs the
\* command with spawnSync; the others are promise-based (HTTP, model calls).
Registry == {"bash", "web_search"}

\* What the model may ask for in one tool call.
CallVariants ==
    { [name |-> "no_such_tool", arguments |-> [query |-> "q"]],
      [name |-> "web_search", arguments |-> [query |-> "q"]],
      [name |-> "bash", arguments |-> [command |-> "c"]],
      [name |-> "bash", arguments |-> [command |-> "c", timeout |-> 300]] }

ToolCallLists == UNION {[1..n -> CallVariants] : n \in 0..MaxToolCalls}

\* LLMResponse: content may be empty, toolCalls may be empty.  A response
\* that asks for tools carries text here, so that the text a capped turn
\* returns is seen not to be the model's.
Responses ==
    [content : {"", "Sure."}, toolCalls : {<<>>}]
    \cup [content : {"Sure."}, toolCalls : ToolCallLists \ {<<>>}]

\* How long the work behind a tool call takes if nothing stops it (ms).
Durations == {1000, 200000}

\* How the work behind a tool call ends if it is left to finish.
Fates == { [how |-> "value", message |-> ""],
           [how |-> "throw", message |-> "boom"],
           [how |-> "throw", message |-> TimeoutMessage] }

\* makeBashTool.execute: timeoutMs of the spawnSync call.
BashTimeoutMs(arguments) ==
    (IF "timeout" \in DOMAIN arguments THEN arguments.timeout
     ELSE BashDefaultTimeoutSec) * 1000

\* tool.execute(tc.arguments, toolCtx), as seen by the caller: settled says
\* whether the promise is already settled when execute hands it back,
\* busyMs how long the call kept the event loop before handing it back,
\* settleMs when the promise settles, counted from the call.
\*   bash: runInSandbox -> spawnSync blocks until the command ends or its own
\*         timeout kills it; the promise comes back settled.
\*   promise-based tools: execute returns a pending promise at once.
Execute(tc, dur, fate) ==
    IF tc.name = "bash"
    THEN [settled |-> TRUE,
          busyMs |-> Min(dur, BashTimeoutMs(tc.arguments)),
          settleMs |-> Min(dur, BashTimeoutMs(tc.arguments)),
          fate |-> fate]
    ELSE [settled |-> FALSE, busyMs |-> 0, settleMs |-> dur, fate |-> fate]

\* Promise.race([tool.execute(...), timer(TOOL_TIMEOUT)]): the timer is set
\* once execute has handed back its promise; a promise settled by then wins.
Race(ex) ==
    IF ~ex.settled /\ ex.settleMs > ex.busyMs + TOOL_TIMEOUT
    THEN [how |-> "throw", message |-> TimeoutMessage,
          waitedMs |-> ex.busyMs + TOOL_TIMEOUT]
    ELSE [how |-> ex.fate.how, message |-> ex.fate.message,
          waitedMs |-> ex.settleMs]

\* No tool ran.
NoFate == [how |-> "none", message |-> ""]

\* The work was still running when the race was decided; how it ends is
\* never looked at.
Abandoned == [how |-> "pending", message |-> ""]

\* One pass of the for loop body: the part pushed for tool call tc.  fate,
\* ranMs and waitedMs record how the work behind the call ended (as far as
\* the loop saw it end), how long it took and how long the loop waited for it.
ToolResultPart(tc, dur, fate) ==
    IF tc.name \notin Registry
    THEN [name |-> tc.name, kind |-> "notfound", fate |-> NoFate,
          ranMs |-> 0, waitedMs |-> 0]
    ELSE LET ex == Execute(tc, dur, fate)
             r == Race(ex)
         IN [name |-> tc.name,
             kind |-> IF r.how = "value" THEN "result"
                      ELSE IF r.message = TimeoutMessage THEN "timeout"
                      ELSE "error",
             fate |-> IF r.waitedMs < ex.settleMs THEN Abandoned ELSE fate,
             ranMs |-> ex.settleMs,
             waitedMs |-> r.waitedMs]

\* A round that starts all its tool calls at once (Promise.all).
StartsAtOnce(parts) == 0

\* When the next pass of the for loop begins, counted from the start of the
\* round: each pass awaits its race before the loop goes on, so the next
\* call starts when the previous one has come back.
NextStart(parts) ==
    IF parts = <<>> THEN 0
    ELSE parts[Len(parts)].startMs + parts[Len(parts)].waitedMs

\* The part of a pass that began at startMs.
StartedAt(part, startMs) ==
    [f \in DOMAIN part \cup {"startMs"} |->
        IF f = "startMs" THEN startMs ELSE part[f]]

\* A push that the "not found" branch skips.
pushUnlessNotFound(parts, part) ==
    IF part.kind = "notfound" THEN parts ELSE Append(parts, part)

\* toolResultParts.push(...)
push(parts, part) == Append(parts, part)

\* A loop that runs one round too many.
LoopContinuesOffByOne(n) == n <= MAX_ITERATIONS

\* while (iterations < MAX_ITERATIONS)
LoopContinues(n) == n < MAX_ITERATIONS

\* A return that forgets the fallback.
FinalTextNoFallback(text) == text

\* if (!finalResponse) finalResponse = "(I ran into an issue ...)"
FinalText(text) == IF text = "" THEN Fallback ELSE text

\* chatMessages: the persisted user/assistant messages of the session, with
\* the inbound text pushed if the last one does not carry it.
BuildContext(history, text) ==
    LET chat == SelectSeq(history, LAMBDA m : m.role \in {"user", "assistant"})
    IN IF chat = <<>> \/ chat[Len(chat)].content # text
       THEN Append(chat, [role |-> "user", content |-> text])
       ELSE chat

Roles(msgs) == [i \in 1..Len(msgs) |-> msgs[i].role]

\* process, up to the first llm.chat: save the user message, build the
\* context, enter the loop.
ProcessStart(text) ==
    /\ pc = "idle"
    /\ turns < MaxTurns
    /\ turns' = turns + 1
    /\ incoming' = text
    /\ dbMessages' = Append(dbMessages, [role |-> "user", content |-> text])
    /\ currentMessages' = Roles(BuildContext(dbMessages', text))
    /\ finalResponse' = ""
    /\ iterations' = 0
    /\ modelCalls' = 0
    /\ response' = NoResponse
    /\ tcIndex' = 0
    /\ toolResultParts' = <<>>
    /\ returned' = None
    /\ pc' = "callModel"
    /\ UNCHANGED nonAgentVars

\* A return that does not save the assistant message.
FinishWithoutSave(text) ==
    /\ finalResponse' = FinalText(text)
    /\ UNCHANGED dbMessages
    /\ returned' = finalResponse'
    /\ pc' = "idle"

\* From the loop exit to the return: fallback, save the assistant message.
Finish(text) ==
    /\ finalResponse' = FinalText(text)
    /\ dbMessages' = Append(dbMessages,
                            [role |-> "assistant", content |-> finalResponse'])
    /\ returned' = finalResponse'
    /\ pc' = "idle"

\* llm.chat returns resp: either the final answer (no tool calls, and the
\* turn runs on to its return) or the start of a round of tool calls.
LlmChatReturns(resp) ==
    /\ pc = "callModel"
    /\ iterations' = iterations + 1
    /\ modelCalls' = modelCalls + 1
    /\ response' = resp
    /\ IF Len(resp.toolCalls) = 0
       THEN /\ Finish(resp.content)
            /\ toolResultParts' = <<>>
            /\ tcIndex' = 0
            /\ UNCHANGED currentMessages
       ELSE /\ currentMessages' = Append(currentMessages, "assistant")
            /\ toolResultParts' = <<>>
            /\ tcIndex' = 1
            /\ pc' = "tools"
            /\ UNCHANGED <<finalResponse, dbMessages, returned>>
    /\ UNCHANGED <<turns, incoming>>
    /\ UNCHANGED nonAgentVars

\* llm.chat throws (retries and fallback exhausted): process rejects.
LlmChatThrows ==
    /\ pc = "callModel"
    /\ iterations' = iterations + 1
    /\ modelCalls' = modelCalls + 1
    /\ pc' = "threw"
    /\ UNCHANGED <<turns, incoming, dbMessages, currentMessages, response,
                   tcIndex, toolResultParts, finalResponse, returned>>
    /\ UNCHANGED nonAgentVars

\* One pass of the for loop: the next tool call of the round is handled and
\* its part pushed.
ExecuteTool(dur, fate) ==
    /\ pc = "tools"
    /\ tcIndex <= Len(response.toolCalls)
    /\ toolResultParts' = push(toolResultParts,
                               StartedAt(ToolResultPart(response.toolCalls[tcIndex],
                                                        dur, fate),
                                         NextStart(toolResultParts)))
    /\ tcIndex' = tcIndex + 1
    /\ UNCHANGED <<pc, turns, incoming, dbMessages, currentMessages, iterations,
                   modelCalls, response, finalResponse, returned>>
    /\ UNCHANGED nonAgentVars

\* After the for loop: the parts go into one user message and the loop
\* condition is tested; when it fails the turn runs on to its return.  A
\* round that is followed by another leaves nothing behind but the message
\* (response and toolResultParts are locals of the loop body).
EndRound ==
    /\ pc = "tools"
    /\ tcIndex > Len(response.toolCalls)
    /\ currentMessages' = Append(currentMessages, "user")
    /\ IF LoopContinues(iterations)
       THEN /\ pc' = "callModel"
            /\ response' = NoResponse
            /\ toolResultParts' = <<>>
            /\ tcIndex' = 0
            /\ UNCHANGED <<finalResponse, dbMessages, returned>>
       ELSE /\ Finish(finalResponse)
            /\ UNCHANGED <<response, toolResultParts, tcIndex>>
    /\ UNCHANGED <<turns, incoming, iterations, modelCalls>>
    /\ UNCHANGED nonAgentVars

\* The gate tables stay as constructed while the agent specification runs.
GateIdle ==
    /\ allowedIds = [telegram |-> {}, whatsapp |-> {}]
    /\ dmPolicy = "strict"
    /\ pairingCodeLength = 2
    /\ allowlist = {}
    /\ pairingCodes = <<>>
    /\ securityEvents = <<>>
    /\ now = 0
    /\ nChecks = 0
    /\ lastCheck = NoCheck
    /\ apc = [p \in Approvers |-> "idle"]
    /\ acode = [p \in Approvers |-> NoCode]
    /\ aentry = [p \in Approvers |-> NoEntry]
    /\ aresult = [p \in Approvers |-> NoResult]

InitAgent ==
    GateIdle /\ AgentIdle /\ RateIdle /\ SwarmIdle /\ RunnerIdle
    /\ RestIdle

NextAgent ==
    \/ \E text \in Texts : ProcessStart(text)
    \/ \E resp \in Responses : LlmChatReturns(resp)
    \/ LlmChatThrows
    \/ \E dur \in Durations, fate \in Fates : ExecuteTool(dur, fate)
    \/ EndRound

SpecAgent == InitAgent /\ [][NextAgent]_vars

\* ------------------------------------------------------------------------
\* RateLimiter (ratelimit.ts)
\* ------------------------------------------------------------------------

\* The limiter's clock moves in steps of RateTickMs.
RateTickMs == 100

\* new RateLimiter(maxRequests, windowMs): the limits and windows modelled.
MaxRequestsValues == {0, 1, 2}
WindowMsValues == {2 * RateTickMs, 10 * RateTickMs}

\* this.limits.get(userId) is defined
HasLimit(userId) == userId \in DOMAIN limits

\* A test that lets a window live one instant too long.
ExpiredStrictlyAfter(entry, t) == t > entry.resetAt

\* now >= entry.resetAt
Expired(entry, t) == t >= entry.resetAt

\* A test that admits one request too many.
UnderLimitInclusive(entry) == entry.count <= maxRequests

\* entry.count < this.maxRequests
UnderLimit(entry) == entry.count < maxRequests

\* A retryAfter that reports the whole window.
RetryAfterWholeWindow(entry, t) == windowMs

\* const retryAfter = entry.resetAt - now
RetryAfter(entry, t) == entry.resetAt - t

\* A sweep that deletes every entry.
SweepsAll(entry, t) == TRUE

\* A sweep that also deletes the entries that have reached the limit.
SweepsExhausted(entry, t) == t >= entry.resetAt \/ entry.count >= maxRequests

\* cleanup: if (now >= entry.resetAt) this.limits.delete(userId)
Sweeps(entry, t) == t >= entry.resetAt

\* this.limits.set(userId, entry)
LimitsSet(userId, entry) ==
    [u \in DOMAIN limits \cup {userId} |->
        IF u = userId THEN entry ELSE limits[u]]

\* The window of userId after a call at time t with the given result: a call
\* before the window's resetAt is counted in it; otherwise an allowed call
\* opens the next window.
WindowAfter(w, t, allowed) ==
    IF t < w.resetAt
    THEN [w EXCEPT !.calls = @ + 1,
                   !.allowed = @ + (IF allowed THEN 1 ELSE 0)]
    ELSE IF allowed
         THEN [resetAt |-> t + windowMs, allowed |-> 1, calls |-> 1,
               deniedBefore |-> w.calls - w.allowed]
         ELSE w

RateInit ==
    /\ maxRequests \in MaxRequestsValues
    /\ windowMs \in WindowMsValues
    /\ limits = <<>>
    /\ rnow = 0
    /\ nRateCalls = 0
    /\ lastRate = NoRate
    /\ win = [u \in Users |-> NoWindow]
    /\ allowedAt = [u \in Users |-> <<>>]
    /\ twin = NoTwin

\* The result of a call and what follows from it for the bookkeeping.
RateReturns(userId, allowed, retryAfter) ==
    /\ lastRate' = [allowed |-> allowed, userId |-> userId, at |-> rnow,
                    retryAfter |-> retryAfter]
    /\ win' = [win EXCEPT ![userId] = WindowAfter(@, rnow, allowed)]
    /\ allowedAt' = [allowedAt EXCEPT ![userId] =
                        IF allowed THEN Append(@, rnow) ELSE @]

\* table.set(userId, entry)
TableSet(table, userId, entry) ==
    [u \in DOMAIN table \cup {userId} |->
        IF u = userId THEN entry ELSE table[u]]

\* table.delete(userId)
TableDelete(table, userId) ==
    [u \in DOMAIN table \ {userId} |-> table[u]]

\* RateLimiter.check(userId) at time t on a limiter whose map is table: the
\* map it leaves and the result it returns.
CheckOn(table, userId, t) ==
    IF userId \notin DOMAIN table \/ Expired(table[userId], t)
    THEN [limits |-> TableSet(table, userId,
                             [count |-> 1, resetAt |-> t + windowMs]),
          allowed |-> TRUE, retryAfter |-> 0]
    ELSE IF UnderLimit(table[userId])
         THEN [limits |-> [table EXCEPT ![userId].count = @ + 1],
               allowed |-> TRUE, retryAfter |-> 0]
         ELSE [limits |-> table, allowed |-> FALSE,
               retryAfter |-> RetryAfter(table[userId], t)]

\* RateLimiter.check(userId)
LimiterCheck(userId) ==
    /\ nRateCalls < MaxRateCalls
    /\ nRateCalls' = nRateCalls + 1
    /\ twin' = CheckOn(twin.limits, userId, rnow)
    /\ IF ~HasLimit(userId) \/ Expired(limits[userId], rnow)
       THEN /\ limits' = LimitsSet(userId, [count |-> 1,
                                            resetAt |-> rnow + windowMs])
            /\ RateReturns(userId, TRUE, 0)
       ELSE IF UnderLimit(limits[userId])
            THEN /\ limits' = [limits EXCEPT ![userId].count = @ + 1]
                 /\ RateReturns(userId, TRUE, 0)
            ELSE /\ RateReturns(userId, FALSE, RetryAfter(limits[userId], rnow))
                 /\ UNCHANGED limits
    /\ UNCHANGED <<maxRequests, windowMs, rnow>>

\* A RateLimiter.check call made on its own.
RateCheck(userId) ==
    /\ LimiterCheck(userId)
    /\ UNCHANGED nonRateVars

\* RateLimiter.cleanup, run by the interval timer; a sweep that finds nothing
\* to delete changes nothing.
RateCleanup ==
    /\ \E u \in DOMAIN limits : Sweeps(limits[u], rnow)
    /\ limits' = [u \in {v \in DOMAIN limits : ~Sweeps(limits[v], rnow)} |->
                     limits[u]]
    /\ UNCHANGED <<maxRequests, windowMs, rnow, nRateCalls, lastRate, win,
                   allowedAt, twin>>
    /\ UNCHANGED nonRateVars

\* Date.now() moves on.
RateAdvance ==
    /\ rnow + RateTickMs <= MaxRateTicks * RateTickMs
    /\ rnow' = rnow + RateTickMs
    /\ UNCHANGED <<maxRequests, windowMs, limits, nRateCalls, lastRate, win,
                   allowedAt, twin>>
    /\ UNCHANGED nonRateVars

InitRate ==
    GateIdle /\ AgentIdle /\ RateInit /\ SwarmIdle /\ RunnerIdle
    /\ RestIdle

NextRate ==
    \/ \E u \in Users : RateCheck(u)
    \/ RateCleanup
    \/ RateAdvance

SpecRate == InitRate /\ [][NextRate]_vars

\* A reset that clears the whole map.
ResetClears(table, userId) == <<>>

\* reset(userId): this.limits.delete(userId)
ResetDeletes(table, userId) == TableDelete(table, userId)

\* admin_ratelimit_reset, called by the model as a tool: a caller who is no
\* admin gets a refusal; for an admin rateLimiter.reset(target) runs.  The
\* never-swept limiter is given the same reset.
RateReset(admin, target) ==
    /\ limits' = IF admin THEN ResetDeletes(limits, target) ELSE limits
    /\ twin' = IF admin
               THEN [twin EXCEPT !.limits = TableDelete(twin.limits, target)]
               ELSE twin
    /\ limits' # limits
    /\ UNCHANGED <<maxRequests, windowMs, rnow, nRateCalls, lastRate, win,
                   allowedAt>>
    /\ UNCHANGED nonRateVars

\* The limiter with its admin tool.
NextRateAdmin ==
    \/ \E u \in Users : RateCheck(u)
    \/ RateCleanup
    \/ RateAdvance
    \/ \E admin \in BOOLEAN, target \in Users : RateReset(admin, target)

SpecRateAdmin == InitRate /\ [][NextRateAdmin]_vars

\* ------------------------------------------------------------------------
\* SwarmOrchestrator (orchestrator.ts)
\* ------------------------------------------------------------------------

\* const AGENT_TIMEOUT = 60000
AGENT_TIMEOUT == 60000

AgentTimeoutMessage == "Agent timeout"
CouldNotDecompose == "Could not decompose the objective into sub-tasks."

RoleNames == {"researcher", "writer"}

\* Partial<SwarmAgent>: the caller may leave the role out.
PartialAgents == {[role |-> r, systemPrompt |-> "p"] : r \in RoleNames}
                 \cup {[systemPrompt |-> "p"]}

SeqsUpTo(S, n) == UNION {[1..k -> S] : k \in 0..n}

\* What the decomposition call can produce: llm.chat throws, the text holds
\* no [...] part, the part is not JSON, or it parses to an array of agents.
Decompositions ==
    {[kind |-> k, roles |-> <<>>] : k \in {"throws", "nojson", "badjson"}}
    \cup {[kind |-> "array", roles |-> r] : r \in SeqsUpTo(RoleNames, MaxAgents)}

\* How an agent's model call ends if it is left to finish.
SwarmFates == { [how |-> "value", message |-> ""],
                [how |-> "throw", message |-> "boom"],
                [how |-> "throw", message |-> AgentTimeoutMessage] }

\* buildCustomAgents: role: a.role ?? "general"
buildCustomAgents(partial) ==
    [i \in 1..Len(partial) |->
        IF "role" \in DOMAIN partial[i] THEN partial[i].role ELSE "general"]

\* A decomposition that gives up on output it cannot parse.
decomposeObjectiveNoFallback(out) ==
    IF out.kind = "array" THEN out.roles ELSE <<>>

\* decomposeObjective: the parsed roles, or the single "general" agent when
\* anything in the try block throws.
decomposeObjective(out) ==
    IF out.kind = "array" THEN out.roles ELSE <<"general">>

\* Promise.race([this.runAgent(agent, objective), timer(AGENT_TIMEOUT)]) of
\* agent i as Promise.allSettled reports it; runAgent awaits llm.chat, so the
\* timer can win.
SettledResult(i, dur, fate) ==
    IF dur > AGENT_TIMEOUT
    THEN [status |-> "rejected", from |-> i, value |-> "",
          message |-> AgentTimeoutMessage]
    ELSE IF fate.how = "value"
         THEN [status |-> "fulfilled", from |-> i, value |-> "content",
               message |-> ""]
         ELSE [status |-> "rejected", from |-> i, value |-> "",
               message |-> fate.message]

\* The text stored for one settled result; from says whose outcome it is.
ResultText(result) ==
    IF result.status = "fulfilled"
    THEN [kind |-> "result", from |-> result.from, text |-> result.value]
    ELSE IF result.status = "rejected"
         THEN IF result.message = AgentTimeoutMessage
              THEN [kind |-> "timeout", from |-> result.from,
                    text |-> "Agent timed out after 60 seconds"]
              ELSE [kind |-> "error", from |-> result.from,
                    text |-> result.message]
         ELSE [kind |-> "error", from |-> 0, text |-> "unknown"]

InSeq(x, sq) == \E i \in 1..Len(sq) : sq[i] = x

\* record[key] = value on a Record<string, string>: a new key goes to the
\* end of the key order, a known key keeps its place and gets the new value.
RecordSet(record, key, value) ==
    [order |-> IF InSeq(key, record.order) THEN record.order
               ELSE Append(record.order, key),
     val |-> [k \in DOMAIN record.val \cup {key} |->
                 IF k = key THEN value ELSE record.val[k]]]

\* Step 3: for (let i = 0; i < agents.length; i++) agentResults[agent.role] = ...
RECURSIVE CollectFrom(_, _, _, _)
CollectFrom(i, roster, results, record) ==
    IF i > Len(roster) THEN record
    ELSE CollectFrom(i + 1, roster, results,
                     RecordSet(record, roster[i], ResultText(results[i])))

\* Object.entries(results)
ObjectEntries(record) ==
    [j \in 1..Len(record.order) |->
        [role |-> record.order[j], result |-> record.val[record.order[j]]]]

SwarmInit == SwarmIdle

\* The agents start: one pending promise each.
StartAgents(roster) ==
    /\ agents' = roster
    /\ IF Len(roster) = 0
       THEN /\ spc' = "done"
            /\ swarmReturned' = CouldNotDecompose
            /\ settled' = <<>>
       ELSE /\ spc' = "running"
            /\ settled' = [i \in 1..Len(roster) |-> Pending]
            /\ UNCHANGED swarmReturned

\* run(objective, userId, channel, customAgents) up to its first await.
SwarmRun(custom) ==
    /\ spc = "idle"
    /\ customAgents' = custom
    /\ IF Len(custom) > 0
       THEN StartAgents(buildCustomAgents(custom))
       ELSE /\ spc' = "decompose"
            /\ UNCHANGED <<agents, settled, swarmReturned>>
    /\ UNCHANGED <<decomposition, agentResults, synthInput, synthCalls>>
    /\ UNCHANGED nonSwarmVars

\* decomposeObjective comes back with out.
Decompose(out) ==
    /\ spc = "decompose"
    /\ decomposition' = out
    /\ StartAgents(decomposeObjective(out))
    /\ UNCHANGED <<customAgents, agentResults, synthInput, synthCalls>>
    /\ UNCHANGED nonSwarmVars

\* The raced promise of agent i settles.
AgentSettles(i, dur, fate) ==
    /\ spc = "running"
    /\ i \in 1..Len(agents)
    /\ settled[i] = Pending
    /\ settled' = [settled EXCEPT ![i] = SettledResult(i, dur, fate)]
    /\ UNCHANGED <<spc, customAgents, decomposition, agents, agentResults,
                   synthInput, synthCalls, swarmReturned>>
    /\ UNCHANGED nonSwarmVars

\* Promise.allSettled resolves; the results are collected and the synthesis
\* call is made.
Collect ==
    /\ spc = "running"
    /\ \A i \in 1..Len(agents) : settled[i] # Pending
    /\ agentResults' = CollectFrom(1, agents, settled, EmptyRecord)
    /\ synthInput' = ObjectEntries(agentResults')
    /\ synthCalls' = synthCalls + 1
    /\ spc' = "synth"
    /\ UNCHANGED <<customAgents, decomposition, agents, settled, swarmReturned>>
    /\ UNCHANGED nonSwarmVars

\* The synthesis call returns and run returns its content.
SynthesisReturns ==
    /\ spc = "synth"
    /\ spc' = "done"
    /\ swarmReturned' = "synthesis"
    /\ UNCHANGED <<customAgents, decomposition, agents, settled, agentResults,
                   synthInput, synthCalls>>
    /\ UNCHANGED nonSwarmVars

\* The synthesis call throws and run rejects.
SynthesisThrows ==
    /\ spc = "synth"
    /\ spc' = "threw"
    /\ UNCHANGED <<customAgents, decomposition, agents, settled, agentResults,
                   synthInput, synthCalls, swarmReturned>>
    /\ UNCHANGED nonSwarmVars

InitSwarm ==
    GateIdle /\ AgentIdle /\ RateIdle /\ SwarmInit /\ RunnerIdle
    /\ RestIdle

NextSwarm ==
    \/ \E custom \in SeqsUpTo(PartialAgents, MaxAgents) : SwarmRun(custom)
    \/ \E out \in Decompositions : Decompose(out)
    \/ \E i \in 1..MaxAgents, dur \in Durations, fate \in SwarmFates :
          AgentSettles(i, dur, fate)
    \/ Collect
    \/ SynthesisReturns
    \/ SynthesisThrows

SpecSwarm == InitSwarm /\ [][NextSwarm]_vars

\* ------------------------------------------------------------------------
\* ContainerRunner (gate.ts)
\* ------------------------------------------------------------------------

\* status: null of a spawnSync result (exit codes are never negative).
NullStatus == -1

\* A captured stream: null when the child was never spawned.
NullStream == [isNull |-> TRUE, text |-> ""]
Stream(text) == [isNull |-> FALSE, text |-> text]

\* What a command does when it is left alone: how long it runs, and whether
\* it then exits with a code or is killed by a signal from outside.
Commands ==
    [dur : Durations, end : {"exit"}, code : {0, 2}, out : {"", "out"}]
    \cup [dur : Durations, end : {"signal"}, code : {0}, out : {""}]

\* timeoutMs as the callers pass it (the default, and a long one).
RunTimeouts == {30000, 300000}

\* What the host does with the spawn: runs the child, fails to start it
\* (spawnSync reports the error in its result), or rejects the call itself
\* (spawnSync throws on arguments it does not accept).
SpawnFates == {"runs", "ENOENT", "throws"}

\* The workspace directory: there, created by mkdirSync, or mkdirSync throws.
WorkspaceFates == {"exists", "created", "mkdirThrows"}

\* spawnSync(file, args, {timeout, encoding}): how the call ended and the
\* result object it handed back.
spawnSync(cmd, timeoutMs, fate) ==
    IF fate = "throws"
    THEN [ended |-> "spawnThrew", status |-> NullStatus,
          stdout |-> NullStream, stderr |-> NullStream]
    ELSE IF fate = "ENOENT"
    THEN [ended |-> "spawnFailed", status |-> NullStatus,
          stdout |-> NullStream, stderr |-> NullStream]
    ELSE IF cmd.dur > timeoutMs
    THEN [ended |-> "timedOut", status |-> NullStatus,
          stdout |-> Stream(""), stderr |-> Stream("")]
    ELSE IF cmd.end = "signal"
    THEN [ended |-> "signalled", status |-> NullStatus,
          stdout |-> Stream(cmd.out), stderr |-> Stream("")]
    ELSE [ended |-> "exited", status |-> cmd.code,
          stdout |-> Stream(cmd.out), stderr |-> Stream("")]

\* result.stdout ?? "", result.stderr ?? ""
TextOrEmpty(stream) == IF stream.isNull THEN "" ELSE stream.text

\* An exit code taken with || instead of ??.
StatusOrOneIfFalsy(status) ==
    IF status = NullStatus \/ status = 0 THEN 1 ELSE status

\* result.status ?? 1
StatusOrOne(status) == IF status = NullStatus THEN 1 ELSE status

\* The { stdout, stderr, exitCode } value built from a spawnSync result.
RunValue(r) ==
    [stdout |-> TextOrEmpty(r.stdout), stderr |-> TextOrEmpty(r.stderr),
     exitCode |-> StatusOrOne(r.status)]

NoValue == [stdout |-> "", stderr |-> "", exitCode |-> NullStatus]

\* The hardening flags of the README's container specification, as they
\* appear in an argument list handed to docker run.
MemoryFlag == "--memory"
CpusFlag == "--cpus"
NetworkNoneFlag == "--network none"
ReadOnlyFlag == "--read-only"
TmpfsFlag == "--tmpfs /tmp:size=100m"
UserFlag == "--user 1000:1000"
NoNewPrivilegesFlag == "--security-opt no-new-privileges"

\* const args = [...] of runInSandbox: the flags between "run" and the image.
SandboxArgs ==
    {"--rm", "--name", MemoryFlag, CpusFlag, NetworkNoneFlag, ReadOnlyFlag,
     TmpfsFlag, "-v", "--workdir", UserFlag, NoNewPrivilegesFlag}

\* const args = [...] of runWithNetwork.
NetworkArgs ==
    {"--rm", "--name", MemoryFlag, CpusFlag, TmpfsFlag, "-v", "--workdir",
     UserFlag, NoNewPrivilegesFlag}

\* The spawn option timeout of the branch without a container, always the
\* default of the signature.
DirectTimeoutDefault(timeoutMs) == 30000

\* timeout: timeoutMs in the spawn options of the branch without a container.
DirectTimeout(timeoutMs) == timeoutMs

\* The call as recorded: which function, how it ran the command, the docker
\* flags it passed, the timeout it was given and the one it handed to the
\* spawn, how the command ended, whether the call returned a value or threw,
\* whether docker rm -f was attempted, and whether the warning about running
\* without isolation was logged.
RunRecord(fn, mode, network, args, cmd, timeoutMs, used, ended, outcome, value, removed, warned) ==
    [fn |-> fn, mode |-> mode, network |-> network, args |-> args,
     cmd |-> cmd, timeoutMs |-> timeoutMs, timeoutUsed |-> used,
     ended |-> ended, outcome |-> outcome, value |-> value,
     removed |-> removed, warned |-> warned]

\* The docker branch shared by both functions: workspace, spawnSync inside
\* try, and in catch the docker rm -f and the rethrow.
DockerRun(fn, network, args, cmd, timeoutMs, ws, fate) ==
    IF ws = "mkdirThrows"
    THEN RunRecord(fn, "docker", network, args, cmd, timeoutMs, timeoutMs,
                   "mkdirThrew", "threw", NoValue, FALSE, FALSE)
    ELSE LET r == spawnSync(cmd, timeoutMs, fate) IN
         IF r.ended = "spawnThrew"
         THEN RunRecord(fn, "docker", network, args, cmd, timeoutMs,
                        timeoutMs, r.ended, "threw", NoValue, TRUE, FALSE)
         ELSE RunRecord(fn, "docker", network, args, cmd, timeoutMs,
                        timeoutMs, r.ended, "returned", RunValue(r), FALSE,
                        FALSE)

\* The branch without a container: the warning, then
\* spawnSync("sh", ["-c", command]) outside any try; a workspace that is
\* missing makes the spawn fail.
DirectRun(fn, cmd, timeoutMs, ws, fate) ==
    LET used == DirectTimeout(timeoutMs)
        r == spawnSync(cmd, used,
                       IF ws = "exists" \/ fate = "throws" THEN fate
                       ELSE "ENOENT")
    IN IF r.ended = "spawnThrew"
       THEN RunRecord(fn, "direct", "host", {}, cmd, timeoutMs, used,
                      r.ended, "threw", NoValue, FALSE, TRUE)
       ELSE RunRecord(fn, "direct", "host", {}, cmd, timeoutMs, used,
                      r.ended, "returned", RunValue(r), FALSE, TRUE)

RunnerInit ==
    /\ runtime \in {"docker", "none"}
    /\ nRuns = 0
    /\ lastRun = NoRun

\* ContainerRunner.runInSandbox(command, workspacePath, timeoutMs)
RunInSandbox(cmd, timeoutMs, ws, fate) ==
    /\ nRuns < MaxRuns
    /\ nRuns' = nRuns + 1
    /\ lastRun' = IF runtime = "none"
                  THEN DirectRun("runInSandbox", cmd, timeoutMs, ws, fate)
                  ELSE DockerRun("runInSandbox", "none", SandboxArgs, cmd,
                                 timeoutMs, ws, fate)
    /\ UNCHANGED runtime
    /\ UNCHANGED nonRunnerVars

\* ContainerRunner.runWithNetwork(command, workspacePath, timeoutMs)
RunWithNetwork(cmd, timeoutMs, ws, fate) ==
    /\ nRuns < MaxRuns
    /\ nRuns' = nRuns + 1
    /\ lastRun' = IF runtime = "none"
                  THEN [DirectRun("runInSandbox", cmd, timeoutMs, ws, fate)
                           EXCEPT !.fn = "runWithNetwork"]
                  ELSE DockerRun("runWithNetwork", "default", NetworkArgs,
                                 cmd, timeoutMs, ws, fate)
    /\ UNCHANGED runtime
    /\ UNCHANGED nonRunnerVars

InitRunner ==
    GateIdle /\ AgentIdle /\ RateIdle /\ SwarmIdle /\ RunnerInit
    /\ RestIdle

NextRunner ==
    \/ \E cmd \in Commands, t \in RunTimeouts, ws \in WorkspaceFates,
          fate \in SpawnFates : RunInSandbox(cmd, t, ws, fate)
    \/ \E cmd \in Commands, t \in RunTimeouts, ws \in WorkspaceFates,
          fate \in SpawnFates : RunWithNetwork(cmd, t, ws, fate)

SpecRunner == InitRunner /\ [][NextRunner]_vars

\* ------------------------------------------------------------------------
\* LLMClient.chat (llm.ts)
\* ------------------------------------------------------------------------

\* const maxRetries = options?.retries ?? 2
DefaultRetries == 2

ModelNames == {"m1", "m2"}

\* `${m.provider}/${m.model}`, every model being of provider "p".
ProviderKey(m) == IF m = "m1" THEN "p/m1" ELSE "p/m2"

\* config.models as the loader can deliver it: one or two models.
ModelLists == {<<"m1">>, <<"m1", "m2">>, <<"m2", "m1">>}

\* The keys of this.configs after the constructor: each model under its name
\* and under provider/name.
ConfigKeys ==
    {models[i] : i \in 1..Len(models)}
    \cup {ProviderKey(models[i]) : i \in 1..Len(models)}

\* this.configs.size
ConfigsSize == Cardinality(ConfigKeys)

\* options.model as callers pass it: left out, a name, or provider/name.
OptionModels == {Undefined, "m1", "m2", "p/m1"}

\* options.retries as callers pass it (Undefined: left out).
OptionRetries == {Undefined, "0"}

\* options?.retries ?? 2
RetriesOf(r) == IF r = Undefined THEN DefaultRetries ELSE 0

\* Messages of the errors a provider call throws, in lower case.
ErrorMessages == {"unauthorized", "overloaded"}

\* The test in front of break: the message names an error not worth a retry.
NonRetryable(message) ==
    message \in {"api key", "unauthorized", "invalid", "model not found"}

\* resolveConfig(model): cfg.model of the configuration chosen; a key that
\* matches nothing falls back to the first model.
resolveConfig(model) ==
    LET key == IF model = Undefined THEN defaultModel ELSE model
        hits == {i \in 1..Len(models) :
                    models[i] = key \/ ProviderKey(models[i]) = key}
    IN IF hits # {} THEN models[CHOOSE i \in hits : TRUE] ELSE models[1]

\* this.configs.size > 1 && options?.model !== this.defaultModel
FallbackApplies(model) == ConfigsSize > 1 /\ model # defaultModel

LlmInit ==
    /\ models \in ModelLists
    /\ defaultModel \in ConfigKeys
    /\ lpc = "idle"
    /\ optModel = Undefined
    /\ depth = 0
    /\ cfgModel = "none"
    /\ maxRetries = 0
    /\ attempt = 0
    /\ calls = <<>>
    /\ chatResult = NoChat
    /\ nChats = 0

\* chat(messages, options) is entered: cfg and maxRetries are fixed and the
\* first attempt is about to be made.
ChatStart(model, retries) ==
    /\ lpc \in {"idle", "done"}
    /\ nChats < MaxChats
    /\ nChats' = nChats + 1
    /\ optModel' = model
    /\ depth' = 0
    /\ cfgModel' = resolveConfig(model)
    /\ maxRetries' = RetriesOf(retries)
    /\ attempt' = 0
    /\ calls' = <<>>
    /\ chatResult' = NoChat
    /\ lpc' = "provider"
    /\ UNCHANGED <<models, defaultModel>>
    /\ UNCHANGED nonLlmVars

\* A loop that waits after every failed attempt, the last one included.
BackoffAfterEvery(att, max) == Min(1000 * 2 ^ att, 5000)

\* if (attempt < maxRetries) await delay(Math.min(1000 * 2 ** attempt, 5000))
\* 0: no wait.
BackoffAfter(att, max) ==
    IF att < max THEN Min(1000 * 2 ^ att, 5000) ELSE 0

\* One provider call, as logged: the model called, in which chat call
\* (outer or fallback), at which attempt of how many retries, how it ended
\* and how long the loop waited after it.
ProviderCall(result, backoff) ==
    [model |-> cfgModel, depth |-> depth, attempt |-> attempt,
     retries |-> maxRetries, result |-> result, backoff |-> backoff]

\* The provider call of this attempt returns; chat returns its response (the
\* outer call hands on what the fallback call returned).
ProviderReturns ==
    /\ lpc = "provider"
    /\ calls' = Append(calls, ProviderCall("ok", 0))
    /\ chatResult' = [outcome |-> "returned", model |-> cfgModel,
                      error |-> "none"]
    /\ lpc' = "done"
    /\ UNCHANGED <<models, defaultModel, optModel, depth, cfgModel,
                   maxRetries, attempt, nChats>>
    /\ UNCHANGED nonLlmVars

\* The provider call of this attempt throws: break or the end of the loop
\* leads to the lines after the loop, otherwise the next attempt follows the
\* backoff.  After the loop the outer call enters the fallback call when the
\* condition holds and throws lastError otherwise; the fallback call, made
\* with model = defaultModel and retries = 0, throws to the outer call, which
\* logs that and throws its own lastError.
ProviderThrows(message) ==
    /\ lpc = "provider"
    /\ calls' = Append(calls,
                       ProviderCall(message,
                                    IF NonRetryable(message) THEN 0
                                    ELSE BackoffAfter(attempt, maxRetries)))
    /\ IF ~NonRetryable(message) /\ attempt < maxRetries
       THEN /\ attempt' = attempt + 1
            /\ UNCHANGED <<lpc, depth, cfgModel, maxRetries, chatResult>>
       ELSE IF depth = 0 /\ FallbackApplies(optModel)
            THEN /\ depth' = 1
                 /\ cfgModel' = resolveConfig(defaultModel)
                 /\ maxRetries' = 0
                 /\ attempt' = 0
                 /\ chatResult' = [outcome |-> "none", model |-> cfgModel,
                                   error |-> message]
                 /\ UNCHANGED lpc
            ELSE /\ chatResult' =
                       IF depth = 1
                       THEN [chatResult EXCEPT !.outcome = "threw"]
                       ELSE [outcome |-> "threw", model |-> cfgModel,
                             error |-> message]
                 /\ lpc' = "done"
                 /\ UNCHANGED <<depth, cfgModel, maxRetries, attempt>>
    /\ UNCHANGED <<models, defaultModel, optModel, nChats>>
    /\ UNCHANGED nonLlmVars

InitLlm ==
    GateIdle /\ AgentIdle /\ RateIdle /\ SwarmIdle /\ RunnerIdle
    /\ LlmInit /\ SessionIdle /\ InboundIdle /\ ContextIdle

NextLlm ==
    \/ \E model \in OptionModels, retries \in OptionRetries :
          ChatStart(model, retries)
    \/ ProviderReturns
    \/ \E message \in ErrorMessages : ProviderThrows(message)

SpecLlm == InitLlm /\ [][NextLlm]_vars

\* A provider call that was made comes back: it returns or it throws.
ProviderSettles ==
    \/ ProviderReturns
    \/ \E message \in ErrorMessages : ProviderThrows(message)

FairSpecLlm == SpecLlm /\ WF_vars(ProviderSettles)

\* ------------------------------------------------------------------------
\* Sessions (getOrCreateSession in the agent loop source, sessions table)
\* ------------------------------------------------------------------------

\* incoming.groupId: left out for a direct message.
GroupIds == {Undefined, "g1"}

\* getSessionByUser(userId, channel): the ids of the rows the WHERE clause
\* selects, and of those the ones ORDER BY last_active_at DESC puts first.
DirectSessions(userId, channel) ==
    {id \in DOMAIN sessions :
        /\ sessions[id].userId = userId
        /\ sessions[id].channel = channel
        /\ sessions[id].groupId = Undefined}

MostRecent(ids) ==
    {id \in ids :
        \A other \in ids :
            sessions[other].lastActiveAt <= sessions[id].lastActiveAt}

\* nanoid(): an id no row has yet.
FreshId == Cardinality(DOMAIN sessions) + 1

\* upsertSession: INSERT ... ON CONFLICT(id) DO UPDATE
upsertSession(table, id, row) ==
    [i \in DOMAIN table \cup {id} |-> IF i = id THEN row ELSE table[i]]

SessionInit ==
    /\ sessions = <<>>
    /\ sclock = 0
    /\ nMessages = 0
    /\ lastSession = NoSession

\* The session part of AgentLoop.process(incoming): getOrCreateSession, then
\* lastActiveAt = Date.now() and upsertSession.  getOrCreateSession hands
\* back the row getSessionByUser found only if the message has no groupId;
\* otherwise it inserts a row under a fresh id.  elapsed is the time gone by
\* since the message before.
SessionEffect(userId, channel, groupId, elapsed) ==
    /\ nMessages < MaxMessages
    /\ nMessages' = nMessages + 1
    /\ sclock' = sclock + elapsed
    /\ LET found == MostRecent(DirectSessions(userId, channel))
           reuse == found # {} /\ groupId = Undefined
       IN \E id \in (IF reuse THEN found ELSE {FreshId}) :
             /\ sessions' = upsertSession(sessions, id,
                   [userId |-> userId, channel |-> channel,
                    groupId |-> IF reuse THEN sessions[id].groupId
                                ELSE groupId,
                    createdAt |-> IF reuse THEN sessions[id].createdAt
                                  ELSE sclock',
                    lastActiveAt |-> sclock'])
             /\ lastSession' = [id |-> id, created |-> ~reuse]

\* process called for one message, the sessions table looked at on its own.
SessionProcess(userId, channel, groupId, elapsed) ==
    /\ SessionEffect(userId, channel, groupId, elapsed)
    /\ UNCHANGED nonSessionVars

InitSession ==
    GateIdle /\ AgentIdle /\ RateIdle /\ SwarmIdle /\ RunnerIdle
    /\ LlmIdle /\ SessionInit /\ InboundIdle /\ ContextIdle

NextSession ==
    \E u \in Users, ch \in Channels, g \in GroupIds, elapsed \in {0, 1} :
        SessionProcess(u, ch, g, elapsed)

SpecSession == InitSession /\ [][NextSession]_vars

\* ------------------------------------------------------------------------
\* Inbound messages: the message handler of a channel adapter (Telegram,
\* WhatsApp) with the handleMessage it calls as onMessage (entry point)
\* ------------------------------------------------------------------------

\* What the handler has left alone.
nonInboundVars == <<agentVars, swarmVars, runnerVars, llmVars, sessionVars,
                    contextVars>>

\* A text message as the handler sees it: sender and channel, whether it
\* came from a group, whether its text holds the trigger word, and whether
\* nothing is left of the text once the trigger word is stripped.
InboundMessages ==
    {m \in [userId : Users, channel : Channels, isGroup : BOOLEAN,
            hasTrigger : BOOLEAN, cleanEmpty : BOOLEAN] :
        /\ m.cleanEmpty => (m.isGroup /\ m.hasTrigger)
        /\ ~m.isGroup => ~m.hasTrigger}

\* How agent.process ends.
ProcessOutcomes == {"answer", "throws"}

\* Messages of one sender, all on one channel and all let through, that the
\* handler has dealt with inside the limiter's open window before the
\* behaviour starts.
PriorMessages == {0, 19}

\* A handler that answers every denial.
DenialReplyAlways(check) ==
    [kind |-> "denial", code |-> check.pairingCode, waitSeconds |-> 0]

\* if (!check.allowed) { if (check.pairingCode) reply(...); return; }
DenialReply(check) ==
    IF check.pairingCode # NoCode
    THEN [kind |-> "pairing", code |-> check.pairingCode, waitSeconds |-> 0]
    ELSE NoReply

\* The rate-limit notice: Math.ceil((rateCheck.retryAfter ?? 0) / 1000)
RateLimitNotice(rate) ==
    [kind |-> "rateLimit", code |-> NoCode,
     waitSeconds |-> CeilDiv(rate.retryAfter, 1000)]

\* What handleMessage returns once the limiter has let the message pass:
\* the text of agent.process, or the fixed apology when it throws.
ProcessReply(outcome) ==
    [kind |-> IF outcome = "answer" THEN "answer" ELSE "apology",
     code |-> NoCode, waitSeconds |-> 0]

\* A handler that hands every message to the agent loop.
AfterLimiterAlways(rate) == "agent"

\* if (!rateCheck.allowed) return <notice>; otherwise agent.process follows.
AfterLimiter(rate) == IF rate.allowed THEN "agent" ELSE "idle"

\* What one earlier turn of a sender left in the messages table.
PriorTurn == <<[role |-> "user", content |-> "hello"],
               [role |-> "assistant", content |-> "Sure."]>>

\* The rows k earlier turns left in the messages table.
PriorRows(k) == [i \in 1..(2 * k) |-> PriorTurn[2 - (i % 2)]]

\* The gate and the limiter as the entry point constructs them
\* (RateLimiter(20, 60000)), either fresh or after k messages of one sender
\* that the gate let through at time 0: each of them logged one
\* "allowlist_hit" event, was counted in the sender's window and was
\* processed in the sender's session, which holds its two rows.  The call
\* counters count the calls made from here on.
InboundInit ==
    /\ allowedIds \in StaticConfigs
    /\ dmPolicy \in {"strict", "pairing"}
    /\ pairingCodeLength \in CodeLengths
    /\ allowlist = {}
    /\ pairingCodes = <<>>
    /\ now = 0
    /\ nChecks = 0
    /\ lastCheck = NoCheck
    /\ apc = [p \in Approvers |-> "idle"]
    /\ acode = [p \in Approvers |-> NoCode]
    /\ aentry = [p \in Approvers |-> NoEntry]
    /\ aresult = [p \in Approvers |-> NoResult]
    /\ maxRequests = 20
    /\ windowMs = 60000
    /\ rnow = 0
    /\ nRateCalls = 0
    /\ lastRate = NoRate
    /\ \E k \in PriorMessages, u \in Users, ch \in Channels :
          /\ k > 0 => ~NotInHardcoded(allowedIds[ch], u)
          /\ securityEvents =
                [i \in 1..k |-> EventRow("allowlist_hit", u, ch,
                                         <<"Access granted">>)]
          /\ limits = [v \in (IF k > 0 THEN {u} ELSE {}) |->
                          [count |-> k, resetAt |-> windowMs]]
          /\ win = [v \in Users |->
                       IF k > 0 /\ v = u
                       THEN [resetAt |-> windowMs, allowed |-> k,
                             calls |-> k, deniedBefore |-> 0]
                       ELSE NoWindow]
          /\ allowedAt = [v \in Users |->
                             IF k > 0 /\ v = u THEN [i \in 1..k |-> 0]
                             ELSE <<>>]
          /\ twin = [NoTwin EXCEPT !.limits = limits]
          /\ sessions = IF k > 0
                        THEN <<[userId |-> u, channel |-> ch,
                                groupId |-> Undefined, createdAt |-> 0,
                                lastActiveAt |-> 0]>>
                        ELSE <<>>
          /\ dbMessages = PriorRows(k)
    /\ sclock = 0
    /\ nMessages = 0
    /\ lastSession = NoSession
    /\ pc = "idle"
    /\ turns = 0
    /\ incoming = None
    /\ currentMessages = <<>>
    /\ iterations = 0
    /\ modelCalls = 0
    /\ response = NoResponse
    /\ tcIndex = 0
    /\ toolResultParts = <<>>
    /\ finalResponse = ""
    /\ returned = None
    /\ InboundIdle

\* The adapter's handler takes a text message; a group message without the
\* trigger word is dropped on the spot.
Deliver(m) ==
    /\ ipc = "idle"
    /\ nInbound < MaxInbound
    /\ nInbound' = nInbound + 1
    /\ imsg' = m
    /\ consulted' = <<>>
    /\ reply' = NoReply
    /\ ipc' = IF m.isGroup /\ ~m.hasTrigger THEN "idle" ELSE "gate"
    /\ UNCHANGED <<gateVars, rateVars>>
    /\ UNCHANGED nonInboundVars

\* const check = await this.gate.check(userId, channel): on a denial the
\* handler sends the pairing text if there is a code and returns; a check
\* that throws ends the handler; an allowed message whose clean text is
\* empty is dropped, any other goes on to onMessage.
ConsultGate(bytes) ==
    /\ ipc = "gate"
    /\ GateCheck(imsg.userId, imsg.channel, bytes)
    /\ consulted' = Append(consulted, "gate")
    /\ reply' = IF lastCheck'.outcome = "denied" THEN DenialReply(lastCheck')
                ELSE reply
    /\ ipc' = IF lastCheck'.outcome = "allowed" /\ ~imsg.cleanEmpty
              THEN "rate" ELSE "idle"
    /\ UNCHANGED <<imsg, nInbound>>
    /\ UNCHANGED rateVars
    /\ UNCHANGED nonInboundVars

\* handleMessage: rateLimiter.check(incoming.from); a denied message is
\* answered with the rate-limit notice, which the adapter sends.
ConsultLimiter ==
    /\ ipc = "rate"
    /\ LimiterCheck(imsg.userId)
    /\ consulted' = Append(consulted, "rate")
    /\ reply' = IF lastRate'.allowed THEN reply ELSE RateLimitNotice(lastRate')
    /\ ipc' = AfterLimiter(lastRate')
    /\ UNCHANGED <<imsg, nInbound>>
    /\ UNCHANGED gateVars
    /\ UNCHANGED nonInboundVars

\* The rows a whole turn leaves in the messages table: the inbound message
\* and, unless process threw, the answer.
TurnRows(text, outcome) ==
    IF outcome = "answer"
    THEN <<[role |-> "user", content |-> text],
           [role |-> "assistant", content |-> "Sure."]>>
    ELSE <<[role |-> "user", content |-> text]>>

\* handleMessage: return await agent.process(incoming) inside try; the
\* adapter sends what handleMessage returned.  The turn is taken whole: the
\* session is resolved and touched, the inbound message saved, the model
\* called and, unless process threw, the answer saved.
RunAgentLoop(text, outcome) ==
    /\ ipc = "agent"
    /\ consulted' = Append(consulted, "agent")
    /\ SessionEffect(imsg.userId, imsg.channel,
                     IF imsg.isGroup THEN "g1" ELSE Undefined, 0)
    /\ turns' = turns + 1
    /\ incoming' = text
    /\ dbMessages' = dbMessages \o TurnRows(text, outcome)
    /\ reply' = ProcessReply(outcome)
    /\ ipc' = "idle"
    /\ UNCHANGED <<imsg, nInbound>>
    /\ UNCHANGED <<pc, currentMessages, iterations, modelCalls, response,
                   tcIndex, toolResultParts, finalResponse, returned>>
    /\ UNCHANGED <<gateVars, rateVars>>
    /\ UNCHANGED <<swarmVars, runnerVars, llmVars, contextVars>>

InitInbound ==
    SwarmIdle /\ RunnerIdle /\ LlmIdle /\ ContextIdle /\ InboundInit

NextInbound ==
    \/ \E m \in InboundMessages : Deliver(m)
    \/ \E b \in randomBytes(CeilDiv(pairingCodeLength, 2)) : ConsultGate(b)
    \/ ConsultLimiter
    \/ \E text \in Texts, outcome \in ProcessOutcomes :
          RunAgentLoop(text, outcome)

SpecInbound == InitInbound /\ [][NextInbound]_vars

\* ------------------------------------------------------------------------
\* AgentLoop.process from saveMessage(userMsg) to the first llm.chat: the
\* history read back from the messages table, the chat messages built from
\* it, the token budget (agent loop, db.ts)
\* ------------------------------------------------------------------------

\* getSessionMessages(session.id, 40)
HistoryLimit == 40

\* const MAX_HISTORY_TOKENS = 8000
MAX_HISTORY_TOKENS == 8000

\* Message texts: a greeting and a long text.
Contents == {"hello", "essay"}

\* text.length
Chars(text) == IF text = "essay" THEN 16000 ELSE 5

\* estimateTokens(text): Math.ceil(text.length / 4)
estimateTokens(text) == CeilDiv(Chars(text), 4)

\* estimateMessagesTokens(messages)
RECURSIVE estimateMessagesTokens(_)
estimateMessagesTokens(messages) ==
    IF messages = <<>> THEN 0
    ELSE estimateTokens(Head(messages).content)
         + estimateMessagesTokens(Tail(messages))

\* Timestamps of the rows already in the table (ms): a user row carries the
\* time the channel gave the message, an assistant row Date.now() at the
\* end of its turn.
RowTimes == {1000, 2500}

\* incoming.timestamp: msg.date * 1000, whole seconds.
InboundTimes == {1000, 2000, 3000}

\* estimateTokens(systemPrompt): the template with few or many memories.
SystemSizes == {300, 4500}

\* Rows process has saved for the session in earlier turns.  this says
\* whether the row is the one saved for the inbound message of this turn;
\* it is no column of the table.
EarlierRows ==
    [role : {"user", "assistant"}, content : Contents, timestamp : RowTimes,
     this : {FALSE}]

\* The rows of `rows` with the latest timestamp.
Latest(table, rows) ==
    {i \in rows : \A j \in rows : table[j].timestamp <= table[i].timestamp}

\* ORDER BY timestamp DESC over the rows given: every order the statement
\* allows (rows of equal timestamp come in any order).
RECURSIVE OrderByTimestampDesc(_, _)
OrderByTimestampDesc(table, rows) ==
    IF rows = {} THEN {<<>>}
    ELSE UNION {{<<table[i]>> \o rest :
                    rest \in OrderByTimestampDesc(table, rows \ {i})} :
                i \in Latest(table, rows)}

\* rows.reverse()
RECURSIVE Reverse(_)
Reverse(sq) ==
    IF sq = <<>> THEN <<>> ELSE Append(Reverse(Tail(sq)), Head(sq))

\* getSessionMessages(sessionId, limit): SELECT ... ORDER BY timestamp DESC
\* LIMIT ?, reversed; the lists the call can return.
getSessionMessages(table, limit) ==
    {Reverse(SubSeq(sorted, 1, Min(limit, Len(sorted)))) :
        sorted \in OrderByTimestampDesc(table, DOMAIN table)}

\* history.filter(role is user or assistant).map(role, content)
ToChat(history) ==
    SelectSeq(history, LAMBDA m : m.role \in {"user", "assistant"})

\* if (chatMessages[chatMessages.length - 1]?.content !== incoming.text)
\*     chatMessages.push({ role: "user", content: incoming.text })
EnsureLast(chat, text) ==
    IF chat = <<>> \/ chat[Len(chat)].content # text
    THEN Append(chat, [role |-> "user", content |-> text,
                       timestamp |-> 0, this |-> TRUE])
    ELSE chat

\* A loop that shifts down to one message.
KeepsShiftingToOne(len, total) == len > 1 /\ total > MAX_HISTORY_TOKENS

\* while (chatMessages.length > 2 &&
\*        systemTokens + historyTokens > MAX_HISTORY_TOKENS)
KeepsShifting(len, total) == len > 2 /\ total > MAX_HISTORY_TOKENS

ContextInit ==
    /\ ctxpc = "start"
    /\ msgTable \in SeqsUpTo(EarlierRows, MaxHistory)
    /\ cIncoming \in [text : Contents, timestamp : InboundTimes]
    /\ systemTokens \in SystemSizes
    /\ built = <<>>
    /\ chatMessages = <<>>
    /\ historyTokens = 0

\* saveMessage(userMsg), getSessionMessages, the chat messages with the
\* inbound text ensured at the end, the token estimates.
SaveAndBuild ==
    /\ ctxpc = "start"
    /\ msgTable' = Append(msgTable,
                          [role |-> "user", content |-> cIncoming.text,
                           timestamp |-> cIncoming.timestamp, this |-> TRUE])
    /\ \E history \in getSessionMessages(msgTable', HistoryLimit) :
          chatMessages' = EnsureLast(ToChat(history), cIncoming.text)
    /\ built' = chatMessages'
    /\ historyTokens' = estimateMessagesTokens(chatMessages')
    /\ ctxpc' = "budget"
    /\ UNCHANGED <<cIncoming, systemTokens>>
    /\ UNCHANGED nonContextVars

\* One pass of the while loop: removed = chatMessages.shift();
\* historyTokens -= estimateTokens(removed.content)
Shift ==
    /\ ctxpc = "budget"
    /\ KeepsShifting(Len(chatMessages), systemTokens + historyTokens)
    /\ chatMessages' = Tail(chatMessages)
    /\ historyTokens' = historyTokens - estimateTokens(Head(chatMessages).content)
    /\ UNCHANGED <<ctxpc, msgTable, cIncoming, systemTokens, built>>
    /\ UNCHANGED nonContextVars

\* The loop condition fails: currentMessages = [...chatMessages] and the
\* first llm.chat call is made with it.
FirstCall ==
    /\ ctxpc = "budget"
    /\ ~KeepsShifting(Len(chatMessages), systemTokens + historyTokens)
    /\ ctxpc' = "firstCall"
    /\ UNCHANGED <<msgTable, cIncoming, systemTokens, built, chatMessages,
                   historyTokens>>
    /\ UNCHANGED nonContextVars

InitContext ==
    GateIdle /\ AgentIdle /\ RateIdle /\ SwarmIdle /\ RunnerIdle
    /\ LlmIdle /\ SessionIdle /\ InboundIdle /\ ContextInit

NextContext ==
    \/ SaveAndBuild
    \/ Shift
    \/ FirstCall

SpecContext == InitContext /\ [][NextContext]_vars

\* ------------------------------------------------------------------------
\* Properties of the agent loop
\* ------------------------------------------------------------------------

\* A turn in which every model call and every tool call comes back: the
\* awaited promise settles and the loop takes its next step.
TurnStep ==
    \/ \E resp \in Responses : LlmChatReturns(resp)
    \/ \E dur \in Durations, fate \in Fates : ExecuteTool(dur, fate)
    \/ EndRound

FairSpecAgent == SpecAgent /\ WF_vars(TurnStep)

TurnReturned == pc = "idle" /\ turns > 0

\* C1: process never returns an empty string; when the last model response
\* still asked for tools (the cap was hit) or carried an empty text, the
\* returned value is the fixed fallback apology.
C1_NeverEmpty ==
    /\ returned # ""
    /\ TurnReturned =>
          /\ returned # None
          /\ (Len(response.toolCalls) > 0 \/ response.content = "")
                => returned = Fallback

\* Ten model responses in a row asked for tools and the turn returned the
\* fallback.
C1_Witness ==
    /\ TurnReturned
    /\ modelCalls = MAX_ITERATIONS
    /\ Len(response.toolCalls) > 0
    /\ returned = Fallback

\* C2: in every round each requested tool call gets exactly one result part,
\* in request order: "not found" for an unregistered name, the result on
\* success, an error on a throw, a timeout text on timeout; a step of the
\* round never ends the turn in an error.
C2_OnePartPerCall ==
    /\ [](Len(response.toolCalls) > 0 =>
            /\ Len(toolResultParts) =
                  (IF pc = "tools" THEN tcIndex - 1 ELSE Len(response.toolCalls))
            /\ tcIndex <= Len(response.toolCalls) + 1
            /\ \A i \in 1..Len(toolResultParts) :
                  LET part == toolResultParts[i]
                      tc == response.toolCalls[i]
                  IN /\ part.name = tc.name
                     /\ part.kind \in {"notfound", "result", "error", "timeout"}
                     /\ part.kind = "notfound" <=> tc.name \notin Registry
                     /\ part.kind = "result" => part.fate.how = "value"
                     /\ part.kind = "error" => part.fate.how = "throw"
                     /\ part.kind = "timeout" =>
                           \/ part.waitedMs = TOOL_TIMEOUT
                           \/ part.fate = [how |-> "throw",
                                           message |-> TimeoutMessage])
    /\ [][pc = "tools" => pc' \in {"tools", "callModel", "idle"}]_vars

\* A round of two calls ran through: the first name was not registered and
\* the second call timed out.
C2_Witness ==
    /\ pc = "tools"
    /\ tcIndex > Len(response.toolCalls)
    /\ Len(toolResultParts) = 2
    /\ toolResultParts[1].kind = "notfound"
    /\ toolResultParts[2].kind = "timeout"
    /\ toolResultParts[2].waitedMs = TOOL_TIMEOUT

\* C3 as stated: a call to a registered tool whose work is not finished after
\* TOOL_TIMEOUT yields a timeout part, and the loop has not waited for it
\* longer than TOOL_TIMEOUT.
C3_TimeoutBoundsEveryTool ==
    \A i \in 1..Len(toolResultParts) :
        (/\ toolResultParts[i].name \in Registry
         /\ toolResultParts[i].ranMs > TOOL_TIMEOUT)
        => /\ toolResultParts[i].kind = "timeout"
           /\ toolResultParts[i].waitedMs <= TOOL_TIMEOUT

\* C4: one turn makes at most MAX_ITERATIONS model calls; the steps of a
\* round never end the turn in an error; and if every model call and tool
\* call returns, the turn ends by returning a response.
C4_BoundedLoop ==
    /\ [](modelCalls <= MAX_ITERATIONS)
    /\ [][pc' = "threw" => pc \in {"callModel", "threw"}]_vars
    /\ (pc = "callModel") ~> (pc = "threw" \/ (TurnReturned /\ returned # None))

\* The cap ended the turn: ten rounds of tools, twenty-one messages in the
\* running list, and a response came back.
C4_Witness ==
    /\ TurnReturned
    /\ iterations = MAX_ITERATIONS
    /\ toolResultParts # <<>>
    /\ Len(currentMessages) = 1 + 2 * MAX_ITERATIONS
    /\ returned # None

\* ------------------------------------------------------------------------
\* Properties of the gate
\* ------------------------------------------------------------------------

\* The approvePairing calls made on code c, finished or not.
CallsOn(c) == {p \in Approvers : apc[p] # "idle" /\ acode[p] = c}

\* The calls on c that returned success.
Winners(c) == {p \in CallsOn(c) : apc[p] = "done" /\ aresult[p].success}

AllDone(c) == \A p \in CallsOn(c) : apc[p] = "done"

CheckReturned == lastCheck.outcome \in {"allowed", "denied"}

\* C5 as stated: whenever every approvePairing call racing on a code (each
\* having found the code unused and unexpired at its lookup) has returned,
\* exactly one of them returned success.
C5_ExactlyOneWinner ==
    \A c \in PossibleCodes :
        (/\ CallsOn(c) # {}
         /\ AllDone(c)
         /\ \A p \in CallsOn(c) : aresult[p].lookedUp)
        => Cardinality(Winners(c)) = 1

\* C5 amended: of the approvePairing calls on one code, in any interleaving
\* of their lookup and consume steps, at most one returns success; exactly
\* one does once all have returned, one of them found the code at its lookup
\* and the code has not expired meanwhile.
C5_AtMostOneWinner ==
    \A c \in PossibleCodes :
        /\ Cardinality(Winners(c)) <= 1
        /\ (/\ AllDone(c)
            /\ \E p \in CallsOn(c) : aresult[p].lookedUp
            /\ now < pairingCodes[c].expiresAt)
           => Cardinality(Winners(c)) = 1

\* Two calls raced on one code, both past the lookup: one won, one lost.
C5_Witness ==
    \E c \in PossibleCodes : \E p, q \in CallsOn(c) :
        /\ p # q
        /\ apc[p] = "done" /\ apc[q] = "done"
        /\ aresult[p].lookedUp /\ aresult[q].lookedUp
        /\ aresult[p].success /\ ~aresult[q].success

\* approver p returns success in this step
Succeeds(p) == apc[p] # "done" /\ apc'[p] = "done" /\ aresult'[p].success

\* C6: a pairing code that is expired (now >= expiresAt) or already used is
\* never consumed: every step in which an approvePairing call succeeds, and
\* every step that changes the allowlist, starts from a state in which the
\* call's code is recorded, unused and unexpired.
C6_NoDeadCodeConsumed ==
    [][/\ \A p \in Approvers :
            Succeeds(p) =>
               /\ acode[p] \in DOMAIN pairingCodes
               /\ ~pairingCodes[acode[p]].used
               /\ now < pairingCodes[acode[p]].expiresAt
       /\ (\/ allowlist' # allowlist
           \/ \E c \in DOMAIN pairingCodes :
                 pairingCodes'[c].used # pairingCodes[c].used)
          => \E p \in Approvers : Succeeds(p)]_vars

\* A call found the code at its lookup, the code expired before the consume
\* step, and the call failed, leaving the code unused.
C6_Witness ==
    \E p \in Approvers :
        /\ apc[p] = "done"
        /\ aresult[p].lookedUp
        /\ ~aresult[p].success
        /\ ~pairingCodes[acode[p]].used
        /\ now >= pairingCodes[acode[p]].expiresAt

\* C7 as stated: under policy "pairing", a check that returned for an
\* identity absent from the static and from the dynamic allowlist returned
\* denied with a non-empty pairing code of the configured length.
C7_PairingChallenge ==
    (/\ dmPolicy = "pairing"
     /\ CheckReturned
     /\ ~lastCheck.inStatic
     /\ ~lastCheck.inDynamic)
    => /\ lastCheck.outcome = "denied"
       /\ lastCheck.pairingCode # NoCode
       /\ Len(lastCheck.pairingCode) = pairingCodeLength

\* C8 as stated: under policy "strict", a check that returned for an identity
\* absent from the static and from the dynamic allowlist returned denied
\* without a code, logged a "blocked" event and no pairing code is recorded.
C8_StrictDenial ==
    (/\ dmPolicy = "strict"
     /\ CheckReturned
     /\ ~lastCheck.inStatic
     /\ ~lastCheck.inDynamic)
    => /\ lastCheck.outcome = "denied"
       /\ lastCheck.pairingCode = NoCode
       /\ securityEvents # <<>>
       /\ securityEvents[Len(securityEvents)] =
             EventRow("blocked", lastCheck.userId, lastCheck.channel,
                      <<"Not in allowlist">>)
       /\ DOMAIN pairingCodes = {}

\* C9 as stated: check returns allowed only for an identity that is in the
\* channel's static allowlist or in the dynamic allowlist for the channel.
C9_AllowedOnlyIfListed ==
    lastCheck.outcome = "allowed" => lastCheck.inStatic \/ lastCheck.inDynamic

OneEventAppended ==
    /\ Len(securityEvents') = Len(securityEvents) + 1
    /\ SubSeq(securityEvents', 1, Len(securityEvents)) = securityEvents

NewEvent == securityEvents'[Len(securityEvents')]

C12_AllowlistGrowsByApproval ==
    [][/\ allowlist \subseteq allowlist'
       /\ allowlist' # allowlist => \E p \in Approvers : Succeeds(p)
       /\ \A p \in Approvers :
            Succeeds(p) =>
               allowlist' = allowlist \cup
                               {<<pairingCodes[acode[p]].userId,
                                  pairingCodes[acode[p]].channel>>}
       /\ nChecks' # nChecks => allowlist' = allowlist]_vars

\* An approval added the pair of its code, and a later check that read the
\* dynamic allowlist left it as it was.
C12_Witness ==
    /\ \E p \in Approvers :
          /\ apc[p] = "done"
          /\ aresult[p].success
          /\ allowlist = {<<aresult[p].userId, aresult[p].channel>>}
          /\ lastCheck.userId = aresult[p].userId
          /\ lastCheck.channel = aresult[p].channel
    /\ lastCheck.outcome = "allowed"
    /\ lastCheck.inDynamic
    /\ nChecks = 2

\* ------------------------------------------------------------------------
\* Properties of the rate limiter
\* ------------------------------------------------------------------------

\* The call lastRate was the k-th call inside its identity's window.
RateCallInWindow(k) ==
    /\ nRateCalls > 0
    /\ lastRate.at < win[lastRate.userId].resetAt
    /\ win[lastRate.userId].calls = k

\* The number of requests a window admits: the call that opens a window is
\* admitted before the count is compared with maxRequests.
EffectiveLimit == IF maxRequests < 1 THEN 1 ELSE maxRequests

\* C13 as stated: of the consecutive calls of one identity inside one window
\* (the first of them opening it), the first maxRequests return allowed and
\* call number maxRequests + 1 returns denied with retryAfter <= windowMs.
C13_FirstNThenDenied ==
    \A k \in 1..MaxRateCalls + 1 :
        RateCallInWindow(k) =>
           /\ k <= maxRequests => lastRate.allowed
           /\ k = maxRequests + 1 =>
                 ~lastRate.allowed /\ lastRate.retryAfter <= windowMs

\* C13 amended: the same with the limit a window really has, which is
\* maxRequests when maxRequests >= 1 and 1 otherwise.
C13_FirstEffectiveNThenDenied ==
    \A k \in 1..MaxRateCalls + 1 :
        RateCallInWindow(k) =>
           /\ k <= EffectiveLimit => lastRate.allowed
           /\ k > EffectiveLimit =>
                 /\ ~lastRate.allowed
                 /\ lastRate.retryAfter > 0
                 /\ lastRate.retryAfter <= windowMs

\* With maxRequests = 2 the third call inside a window was denied.
C13_Witness ==
    /\ maxRequests = 2
    /\ RateCallInWindow(3)
    /\ win[lastRate.userId].allowed = 2
    /\ ~lastRate.allowed
    /\ lastRate.retryAfter <= windowMs

\* C14 as stated: inside a window, from the allowed call that opened it to
\* its resetAt, an identity never has more than maxRequests allowed results.
C14_AtMostMaxPerWindow ==
    \A u \in Users : win[u].allowed <= maxRequests

\* C14 amended: never more than the window's effective limit (maxRequests,
\* or 1 when maxRequests < 1), whatever the sweeps do.
C14_AtMostEffectivePerWindow ==
    \A u \in Users : win[u].allowed <= EffectiveLimit

\* The window is fixed: more than maxRequests allowed calls of one identity
\* lie less than windowMs apart, on both sides of a reset.
C14_Witness ==
    \E u \in Users :
        /\ maxRequests >= 2
        /\ Len(allowedAt[u]) = 2 * maxRequests
        /\ win[u].allowed = maxRequests
        /\ allowedAt[u][Len(allowedAt[u])] - allowedAt[u][maxRequests] < windowMs

\* This step is a RateLimiter.check call.
RateCallStep == nRateCalls' = nRateCalls + 1

\* C15: a denied check returns retryAfter = resetAt - now, which is > 0, and
\* leaves the limits as they were; with maxRequests = 2 and windowMs = 1000
\* the call at t = 200 after allowed calls at t = 0 and t = 100 is denied
\* with retryAfter 800.
C15_DeniedRetryAfter ==
    [][RateCallStep =>
         LET u == lastRate'.userId IN
         /\ ~lastRate'.allowed =>
               /\ HasLimit(u)
               /\ lastRate'.retryAfter = limits[u].resetAt - rnow
               /\ lastRate'.retryAfter > 0
               /\ limits' = limits
         /\ (/\ maxRequests = 2
             /\ windowMs = 1000
             /\ allowedAt[u] = <<0, 100>>
             /\ rnow = 200)
            => (~lastRate'.allowed /\ lastRate'.retryAfter = 800)]_vars

\* The scenario: calls at 0, 100 and 200 gave allowed, allowed, denied(800).
C15_Witness ==
    /\ maxRequests = 2
    /\ windowMs = 1000
    /\ nRateCalls = 3
    /\ allowedAt[lastRate.userId] = <<0, 100>>
    /\ lastRate = [allowed |-> FALSE, userId |-> lastRate.userId, at |-> 200,
                   retryAfter |-> 800]

\* C16: a check for an identity with no entry, or with an entry whose
\* resetAt is not after now (now = resetAt included), returns allowed and
\* leaves that identity with count 1 and resetAt = now + windowMs, whatever
\* the previous window denied.
C16_FreshWindow ==
    [][RateCallStep =>
         LET u == lastRate'.userId IN
         (~HasLimit(u) \/ rnow >= limits[u].resetAt) =>
            /\ lastRate'.allowed
            /\ limits'[u] = [count |-> 1, resetAt |-> rnow + windowMs]
            /\ \A v \in DOMAIN limits \ {u} : limits'[v] = limits[v]]_vars

\* A call made exactly at the resetAt of a window that had denied a request
\* opened the next window.
C16_Witness ==
    \E u \in Users :
        /\ lastRate.userId = u
        /\ lastRate.allowed
        /\ win[u].deniedBefore > 0
        /\ win[u].calls = 1
        /\ win[u].resetAt = rnow + windowMs
        /\ maxRequests = 1
        /\ Len(allowedAt[u]) >= 2
        /\ allowedAt[u][Len(allowedAt[u]) - 1] + windowMs = rnow
        /\ lastRate.at = rnow
        /\ HasLimit(u)
        /\ limits[u] = [count |-> 1, resetAt |-> rnow + windowMs]

\* ------------------------------------------------------------------------
\* Properties of the swarm
\* ------------------------------------------------------------------------

\* The synthesis call has been made (and may have returned).
Synthesizing == spc \in {"synth", "done", "threw"} /\ synthCalls > 0

\* Some entry of the synthesis input carries agent i's role and agent i's
\* outcome of the given kind.
EntryOf(i, kind) ==
    \E j \in 1..Len(synthInput) :
        /\ synthInput[j].role = agents[i]
        /\ synthInput[j].result.from = i
        /\ synthInput[j].result.kind = kind

\* C17 as stated: with 3 agents of which agent 2 ran into its timeout and
\* agents 1 and 3 completed, the synthesis call is made only after all three
\* have settled and its input holds labeled results of agents 1 and 3 and an
\* error-labeled (timeout) result of agent 2.
C17_FailureIsolated ==
    /\ Synthesizing => \A i \in 1..Len(agents) : settled[i] # Pending
    /\ (/\ Synthesizing
        /\ Len(agents) = 3
        /\ settled[1].status = "fulfilled"
        /\ settled[2].status = "rejected"
        /\ settled[2].message = AgentTimeoutMessage
        /\ settled[3].status = "fulfilled")
       => /\ EntryOf(1, "result")
          /\ EntryOf(2, "timeout")
          /\ EntryOf(3, "result")

\* C18 as stated: for every roster, rosters with a repeated role included,
\* the synthesis input holds one role-labeled entry per agent, carrying that
\* agent's outcome.
C18_EveryAgentInSynthesis ==
    Synthesizing =>
       /\ Len(synthInput) = Len(agents)
       /\ \A i \in 1..Len(agents) :
             \E kind \in {"result", "timeout", "error"} : EntryOf(i, kind)

\* C19 as stated: with no agents supplied, the roster is a decomposition of
\* 2 to 4 agents or the single "general" agent, at least one agent runs, and
\* run returns only after the synthesis call.
C19_RosterTwoToFourOrGeneral ==
    (Len(customAgents) = 0 /\ spc \notin {"idle", "decompose"}) =>
       /\ \/ decomposition.kind = "array" /\ Len(agents) \in 2..4
          \/ decomposition.kind # "array" /\ agents = <<"general">>
       /\ Len(settled) >= 1
       /\ spc = "done" => synthCalls = 1

\* C19 amended: with no agents supplied, the roster is the array the model's
\* output parses to, whatever its length, or the single "general" agent when
\* the call throws or the output cannot be parsed; an empty roster makes run
\* return the fixed "could not decompose" text with no agent run and no
\* synthesis call, and any other roster is run in full and synthesized
\* before run returns.
C19_RosterAsParsedOrGeneral ==
    (Len(customAgents) = 0 /\ spc \notin {"idle", "decompose"}) =>
       /\ decomposition.kind = "array" => agents = decomposition.roles
       /\ decomposition.kind # "array" => agents = <<"general">>
       /\ Len(settled) = Len(agents)
       /\ Len(agents) = 0 =>
             /\ spc = "done"
             /\ swarmReturned = CouldNotDecompose
             /\ synthCalls = 0
       /\ (Len(agents) > 0 /\ spc = "done") =>
             /\ synthCalls = 1
             /\ swarmReturned = "synthesis"
             /\ \A i \in 1..Len(agents) : settled[i] # Pending

\* The output could not be parsed, the "general" agent ran and the synthesis
\* returned.
C19_Witness ==
    /\ Len(customAgents) = 0
    /\ decomposition.kind = "badjson"
    /\ agents = <<"general">>
    /\ settled[1].status = "fulfilled"
    /\ spc = "done"
    /\ swarmReturned = "synthesis"

\* ------------------------------------------------------------------------
\* Properties of the container runner
\* ------------------------------------------------------------------------

C21_RemovalAttemptedOnEveryExit ==
    (nRuns > 0 /\ lastRun.mode = "docker"
       /\ lastRun.ended \in {"timedOut", "spawnThrew"})
       => lastRun.removed

\* The flags every container is launched with.
HardeningFlags ==
    {MemoryFlag, CpusFlag, ReadOnlyFlag, TmpfsFlag, UserFlag,
     NoNewPrivilegesFlag}

\* C22: every container launched, by runInSandbox and by runWithNetwork
\* alike, carries the memory cap, the CPU cap, the read-only root, the capped
\* tmpfs, the non-root user and no-new-privileges, and the two argument
\* lists differ in nothing but the network mode.
C22_FullFlagSetInBothModes ==
    (nRuns > 0 /\ lastRun.mode = "docker")
       => /\ HardeningFlags \subseteq lastRun.args
          /\ lastRun.args \ {NetworkNoneFlag} = SandboxArgs \ {NetworkNoneFlag}

C24_TimedOutCallHasStopped ==
    \A i \in 1..Len(toolResultParts) :
        toolResultParts[i].kind = "timeout" =>
           /\ toolResultParts[i].ranMs <= toolResultParts[i].waitedMs
           /\ toolResultParts[i].fate # Abandoned

\* ------------------------------------------------------------------------
\* Further properties of the gate
\* ------------------------------------------------------------------------

\* The code is missing from the table, already used, or expired at time t.
DeadCode(code, t) ==
    \/ code \notin DOMAIN pairingCodes
    \/ pairingCodes[code].used
    \/ pairingCodes[code].expiresAt <= t

\* C30: an approvePairing call on a code that is missing, expired or already
\* used returns failure, and no step of a call other than the one in which
\* it succeeds changes the allowlist, the pairing-code records or the
\* security-event log.
C30_FailedApprovalChangesNothing ==
    [][\A p \in Approvers :
          /\ (apc'[p] # apc[p] /\ ~Succeeds(p)) =>
                /\ allowlist' = allowlist
                /\ pairingCodes' = pairingCodes
                /\ securityEvents' = securityEvents
          /\ (apc[p] # "done" /\ apc'[p] = "done"
                /\ DeadCode(acode'[p], now)) =>
                /\ ~aresult'[p].success
                /\ aresult'[p].userId = None
                /\ aresult'[p].channel = None]_vars

\* One call approved a code; a later call on the same, now used, code was
\* turned away at its lookup, and the tables hold what the approval left:
\* one allowlist row, the attempt and the approval in the log.
C30_Witness ==
    \E p, q \in Approvers :
        /\ p # q
        /\ apc[q] = "done" /\ aresult[q].success
        /\ apc[p] = "done" /\ ~aresult[p].success /\ ~aresult[p].lookedUp
        /\ acode[p] = acode[q]
        /\ pairingCodes[acode[p]].used
        /\ allowlist = {<<aresult[q].userId, aresult[q].channel>>}
        /\ Len(securityEvents) = 2

\* ------------------------------------------------------------------------
\* Properties of the model client
\* ------------------------------------------------------------------------

\* C27: a provider error that is not worth a retry surfaces at once: after
\* it no further provider call is made in the chat call, neither on the same
\* model nor on the fallback model.
C27_TerminalErrorEndsTheCall ==
    \A i \in 1..Len(calls) :
        (calls[i].depth = 0 /\ NonRetryable(calls[i].result))
           => i = Len(calls)

\* C28: when the retries of a chat call are used up, the default model is
\* called as fallback only if the call named a model and the model that
\* failed is not the default model itself.
C28_FallbackOnlyFromOtherModel ==
    (\A j \in 1..Len(calls) :
        calls[j].depth = 0 => ~NonRetryable(calls[j].result))
    => \A i \in 1..Len(calls) :
          calls[i].depth = 1 =>
             /\ optModel # Undefined
             /\ calls[i].model # calls[1].model

\* ------------------------------------------------------------------------
\* Properties of the sessions
\* ------------------------------------------------------------------------

\* The scope of a session row: identity and channel for a direct message,
\* group and channel for a group.
SessionScope(row) ==
    IF row.groupId = Undefined
    THEN <<"dm", row.userId, row.channel>>
    ELSE <<"group", row.groupId, row.channel>>

\* C29: the sessions table holds at most one session per scope, and a
\* message in a scope that has a session is handled in that session, not in
\* a new one.
C29_OneSessionPerScope ==
    \A a, b \in DOMAIN sessions :
        a # b => SessionScope(sessions[a]) # SessionScope(sessions[b])

\* ------------------------------------------------------------------------
\* Properties of the inbound message handler
\* ------------------------------------------------------------------------

IsPrefix(sq, of) ==
    /\ Len(sq) <= Len(of)
    /\ \A i \in 1..Len(sq) : sq[i] = of[i]

\* The handler has finished with the message it took last.
Handled == ipc = "idle" /\ nInbound > 0

\* The message got past the trigger-word test of the adapter.
Taken == ~(imsg.isGroup /\ ~imsg.hasTrigger)

\* C25: a message is put to the rate limiter first, to the gate only after
\* the limiter let it pass, and to the agent loop only after the gate let
\* it pass; the limiter has counted every message the handler is through
\* with, the ones the gate turned away included.
C25_LimiterThenGateThenAgent ==
    /\ IsPrefix(consulted, <<"rate", "gate", "agent">>)
    /\ (Handled /\ Taken) => IsPrefix(<<"rate">>, consulted)

C26_RateLimitedReached ==
    /\ Handled
    /\ consulted = <<"gate", "rate">>
    /\ reply.kind = "rateLimit"
    /\ reply.waitSeconds = 60

\* ------------------------------------------------------------------------
\* What a turn persists (saveMessage calls of AgentLoop.process)
\* ------------------------------------------------------------------------

\* The last row of the messages table.
LastSaved == dbMessages[Len(dbMessages)]

\* A turn is between its first statement and its return.
InTurn == pc \in {"callModel", "tools"}

\* The inbound message is the last row saved and nothing else was saved by
\* this turn: one row per earlier turn's inbound message and answer, plus
\* this one.
OnlyInboundSaved ==
    /\ Len(dbMessages) = 2 * turns - 1
    /\ LastSaved = [role |-> "user", content |-> incoming]

\* The turn saved its inbound message and then exactly one assistant
\* message, the returned text.
InboundAndAnswerSaved ==
    /\ Len(dbMessages) = 2 * turns
    /\ dbMessages[Len(dbMessages) - 1] = [role |-> "user", content |-> incoming]
    /\ LastSaved = [role |-> "assistant", content |-> returned]

\* C31: in every turn the inbound user message is persisted before the first
\* model call, and a started turn always ends with exactly one persisted
\* assistant message, the returned text, saved after the last model call;
\* the placeholders and tool-result turns of intermediate rounds are never
\* persisted.
C31_EveryTurnEndsPersisted ==
    /\ InTurn => OnlyInboundSaved
    /\ (turns > 0 /\ ~InTurn) => InboundAndAnswerSaved

\* C31 (amended): the inbound user message is persisted before the first
\* model call and stays the only row the turn has saved while it runs; a
\* turn that returns has saved exactly one more row, the assistant message
\* with the returned text; a turn that ends because llm.chat threw has saved
\* no assistant message.  Placeholders and tool-result turns are never saved.
C31_ReturnedTurnPersisted ==
    /\ InTurn => OnlyInboundSaved
    /\ TurnReturned => InboundAndAnswerSaved
    /\ pc = "threw" => OnlyInboundSaved

\* A turn returned after a round of tool calls: the context holds the
\* placeholder and the tool-result turn, the table only the inbound message
\* and the answer.
C31_Witness ==
    /\ TurnReturned
    /\ modelCalls >= 2
    /\ Len(currentMessages) >= 3
    /\ InboundAndAnswerSaved


\* ------------------------------------------------------------------------
\* Order of the tool calls of a round
\* ------------------------------------------------------------------------

\* The i-th part belongs to the i-th requested call, and the call started
\* when the one before it had come back.
InRequestOrder(i) ==
    /\ toolResultParts[i].name = response.toolCalls[i].name
    /\ IF i = 1 THEN toolResultParts[i].startMs = 0
       ELSE toolResultParts[i].startMs >=
                toolResultParts[i - 1].startMs + toolResultParts[i - 1].waitedMs

\* The round is over: its results go into the context.
RoundEnds == pc = "tools" /\ currentMessages' # currentMessages

\* C33: within one round the tool calls are started strictly in request
\* order and never in parallel: call k+1 is not started until call k has
\* produced its result (value, error or timeout); the results of all calls
\* are appended as one single user turn, in that order, before the next
\* model call.
C33_ToolCallsOneAtATime ==
    /\ [](/\ Len(toolResultParts) <= Len(response.toolCalls)
          /\ \A i \in 1..Len(toolResultParts) : InRequestOrder(i)
          /\ (pc = "callModel" /\ modelCalls > 0) =>
                 currentMessages[Len(currentMessages)] = "user")
    /\ [][RoundEnds =>
            /\ Len(toolResultParts) = Len(response.toolCalls)
            /\ currentMessages' = Append(currentMessages, "user")]_vars
    /\ [][(pc = "tools" /\ modelCalls' # modelCalls) => FALSE]_vars

\* The first of two calls timed out after 120 s and the second was started
\* at that moment; both parts are there when the round ends.
C33_Witness ==
    /\ pc = "tools"
    /\ tcIndex > Len(response.toolCalls)
    /\ Len(toolResultParts) = 2
    /\ toolResultParts[1].kind = "timeout"
    /\ toolResultParts[2].startMs = TOOL_TIMEOUT
    /\ toolResultParts[2].waitedMs > 0

\* ------------------------------------------------------------------------
\* What a refused message leaves behind
\* ------------------------------------------------------------------------

\* The gate refused the message the handler took last.
GateRefused ==
    /\ "gate" \in {consulted[i] : i \in 1..Len(consulted)}
    /\ lastCheck.outcome = "denied"

\* The rate limiter refused the message the handler took last.
LimiterRefused ==
    /\ "rate" \in {consulted[i] : i \in 1..Len(consulted)}
    /\ ~lastRate.allowed

\* What AgentLoop.process writes: the sessions table, the messages table,
\* the state of the turn.
AgentState == <<agentVars, sessionVars>>

\* C35: a message denied by the rate limiter or by the gate never reaches
\* AgentLoop: it causes no session creation or update, no persisted
\* message, no model call and no tool execution.
C35_DeniedNeverReachesAgent ==
    /\ []((GateRefused \/ LimiterRefused) =>
            "agent" \notin {consulted[i] : i \in 1..Len(consulted)})
    /\ [][AgentState' # AgentState =>
            /\ consulted = <<"gate", "rate">>
            /\ lastCheck.outcome = "allowed"
            /\ lastCheck.userId = imsg.userId
            /\ lastCheck.channel = imsg.channel
            /\ lastRate.allowed
            /\ lastRate.userId = imsg.userId]_vars

\* The twenty-first message of a sender inside one window was refused by the
\* limiter: the tables hold what the twenty turns before it left, and no
\* turn was started for it.
C35_Witness ==
    /\ Handled
    /\ LimiterRefused
    /\ nInbound = 2
    /\ turns = 1
    /\ Len(sessions) = 1
    /\ Len(dbMessages) = 2 * 19 + Len(TurnRows("hello", "answer"))

\* ------------------------------------------------------------------------
\* Provider attempts of one chat call
\* ------------------------------------------------------------------------

\* The positions in the log of the provider calls made at the given depth.
CallsAt(d) == {i \in 1..Len(calls) : calls[i].depth = d}

\* Another attempt of the same loop follows call i, made or about to be.
AttemptFollows(i) ==
    IF i < Len(calls)
    THEN /\ calls[i + 1].depth = calls[i].depth
         /\ calls[i + 1].attempt = calls[i].attempt + 1
    ELSE /\ lpc = "provider"
         /\ depth = calls[i].depth
         /\ attempt = calls[i].attempt + 1

AllowedNow(userId, channel) ==
    ~(/\ NotInHardcoded(getHardcodedAllowlist(channel), userId)
      /\ ~isAllowlisted(userId, channel))

\* The events check calls logged, one per call that returned.
IsCheckEvent(ev) == ev.type \in {"allowlist_hit", "blocked"}

\* Events i and j were logged by checks of one identity on one channel.
SamePair(i, j) ==
    /\ IsCheckEvent(securityEvents[i])
    /\ IsCheckEvent(securityEvents[j])
    /\ securityEvents[i].userId = securityEvents[j].userId
    /\ securityEvents[i].channel = securityEvents[j].channel

\* This step is a check call that returns or throws.
CheckStep == nChecks' # nChecks

\* C36: under a fixed configuration Allowed is absorbing: once
\* check(identity, channel) has returned allowed, every later check for the
\* same identity and channel returns allowed, whatever checks, approvals and
\* expiries happen in between.
C36_AllowedIsAbsorbing ==
    /\ [](/\ \A i, j \in 1..Len(securityEvents) :
                (i < j /\ SamePair(i, j)
                   /\ securityEvents[i].type = "allowlist_hit")
                => securityEvents[j].type = "allowlist_hit"
          /\ lastCheck.outcome = "allowed" =>
                AllowedNow(lastCheck.userId, lastCheck.channel))
    /\ [][/\ \A u \in Users, ch \in Channels :
               AllowedNow(u, ch) => AllowedNow(u, ch)'
          /\ \A u \in Users, ch \in Channels :
               (/\ CheckStep
                /\ lastCheck'.userId = u
                /\ lastCheck'.channel = ch
                /\ AllowedNow(u, ch)) => lastCheck'.outcome = "allowed"]_vars

\* A check was allowed, an approval was tried and the clock went past the
\* lifetime of a pairing code; the next check of the same identity on the
\* same channel was allowed again.
C36_Witness ==
    /\ Len(securityEvents) = 2
    /\ SamePair(1, 2)
    /\ securityEvents[1].type = "allowlist_hit"
    /\ securityEvents[2].type = "allowlist_hit"
    /\ now >= PairingTtlMs
    /\ \E p \in Approvers : apc[p] = "done"

\* An approval for the pair was logged before event k.
ApprovedBefore(k, userId, channel) ==
    \E j \in 1..(k - 1) :
        /\ securityEvents[j].type = "pairing_approved"
        /\ securityEvents[j].userId = userId
        /\ securityEvents[j].channel = channel

\* C37: pairing approval is channel-scoped: approving a code issued for
\* (identity, A) adds only (identity, A), and a check for the same identity
\* on a channel B whose non-empty static allowlist does not hold it is still
\* denied.
C37_ApprovalIsPerChannel ==
    /\ [](\A k \in 1..Len(securityEvents) :
             LET ev == securityEvents[k] IN
             (/\ ev.type = "allowlist_hit"
              /\ NotInHardcoded(getHardcodedAllowlist(ev.channel), ev.userId))
             => ApprovedBefore(k, ev.userId, ev.channel))
    /\ [][\A p \in Approvers :
             Succeeds(p) =>
                allowlist' \ allowlist \subseteq
                   {<<aresult'[p].userId, aresult'[p].channel>>}]_vars

\* The identity was approved on one channel and then checked on the other,
\* whose static allowlist names somebody else: denied.
C37_Witness ==
    /\ \E p \in Approvers :
          /\ apc[p] = "done"
          /\ aresult[p].success
          /\ aresult[p].userId = lastCheck.userId
          /\ aresult[p].channel # lastCheck.channel
          /\ <<aresult[p].userId, aresult[p].channel>> \in allowlist
    /\ nChecks = 2
    /\ lastCheck.outcome = "denied"
    /\ lastCheck.readDynamic
    /\ getHardcodedAllowlist(lastCheck.channel) # {}

\* ------------------------------------------------------------------------
\* Sweeps and resets of the rate limiter
\* ------------------------------------------------------------------------

\* The identities whose entry this step deleted.
Deleted == DOMAIN limits \ DOMAIN limits'

\* C38: the background sweep is observationally transparent: it deletes
\* only entries whose resetAt has passed, and for any sequence of check
\* calls the results (allowed or denied, retryAfter) are the same whether
\* or not sweeps run in between.
C38_SweepIsTransparent ==
    /\ [](nRateCalls > 0 =>
            /\ lastRate.allowed = twin.allowed
            /\ lastRate.retryAfter = twin.retryAfter)
    /\ [][/\ \A u \in Deleted : Expired(limits[u], rnow)
          /\ Deleted # {} =>
                /\ nRateCalls' = nRateCalls
                /\ \A u \in DOMAIN limits' : limits'[u] = limits[u]]_vars

\* One identity's expired entry has been swept and is still kept by the
\* limiter that is never swept; a later call of another identity was denied
\* by both.
C38_Witness ==
    /\ \E u \in DOMAIN twin.limits : u \notin DOMAIN limits
    /\ nRateCalls >= 3
    /\ ~lastRate.allowed
    /\ lastRate.retryAfter > 0
    /\ \E u \in DOMAIN twin.limits \ DOMAIN limits :
          lastRate.at >= twin.limits[u].resetAt

\* This step deleted an entry that the sweep would have kept.
ResetStep == \E u \in Deleted : ~Expired(limits[u], rnow)

\* The step is a check call of an identity that has no entry.
CheckWithoutEntry ==
    /\ nRateCalls' # nRateCalls
    /\ ~HasLimit(lastRate'.userId)

\* C39: reset(identity) removes only that identity's window and leaves
\* every other identity's count and resetAt unchanged; the next check for
\* the reset identity returns allowed with count 1 and a new window starting
\* at that call, even if the identity was being denied before.
C39_ResetOnlyThatIdentity ==
    /\ [][ResetStep =>
            /\ Cardinality(Deleted) = 1
            /\ \A u \in DOMAIN limits' : limits'[u] = limits[u]
            /\ lastRate' = lastRate]_vars
    /\ [][CheckWithoutEntry =>
            /\ lastRate'.allowed
            /\ limits'[lastRate'.userId] =
                  [count |-> 1, resetAt |-> rnow + windowMs]
            /\ \A u \in DOMAIN limits : limits'[u] = limits[u]]_vars

\* An identity that was being denied was reset and checked again inside the
\* window it had been denied in: the call was allowed and opened a window of
\* its own, while the other identity's entry stayed as it was.
C39_Witness ==
    /\ lastRate.allowed
    /\ win[lastRate.userId].calls > win[lastRate.userId].allowed
    /\ win[lastRate.userId].allowed > maxRequests
    /\ maxRequests > 0
    /\ lastRate.at > 0
    /\ HasLimit(lastRate.userId)
    /\ limits[lastRate.userId] =
          [count |-> 1, resetAt |-> lastRate.at + windowMs]
    /\ \E u \in DOMAIN limits : u # lastRate.userId

\* ------------------------------------------------------------------------
\* The context of the first model call
\* ------------------------------------------------------------------------

\* How many messages the budget loop has removed.
Removed == Len(built) - Len(chatMessages)

\* What is left is what was built without its oldest messages.
OldestRemoved ==
    /\ Removed >= 0
    /\ chatMessages = SubSeq(built, Removed + 1, Len(built))

\* Neither of the two most recent messages was removed, so the final
\* message is kept.
TwoMostRecentKept ==
    Removed > 0 =>
       /\ Len(chatMessages) >= 2
       /\ chatMessages[Len(chatMessages)] = built[Len(built)]

\* The loop stopped as soon as the estimate was within the budget: with the
\* message removed last still there, the estimate was over it.
StoppedAsSoonAsWithin ==
    Removed > 0 =>
       systemTokens
       + estimateMessagesTokens(SubSeq(built, Removed, Len(built)))
          > MAX_HISTORY_TOKENS

\* The estimated total of the system prompt and the messages left.
EstimatedTotal == systemTokens + estimateMessagesTokens(chatMessages)

\* The budget loop is over.
Enforced == ctxpc = "firstCall"

ThisTurn == {i \in 1..Len(chatMessages) : chatMessages[i].this}

\* C40: the message list passed to the first model call of a turn always
\* ends with a role-user message whose content is the inbound text, and the
\* inbound message of this turn appears in it exactly once, whatever the
\* persisted history holds and however the other messages of the session
\* are ordered by timestamp.
C40_InboundLastAndOnce ==
    Enforced =>
       /\ chatMessages # <<>>
       /\ chatMessages[Len(chatMessages)].role = "user"
       /\ chatMessages[Len(chatMessages)].content = cIncoming.text
       /\ Cardinality(ThisTurn) = 1

====
